---------------------------- MODULE Spec2Model ----------------------------
(***************************************************************************)
(* Model of the prompt-to-code generation and execution pipeline of the    *)
(* AI dashboard: the rule-based VisualizationAgent (visualization_agent.py)*)
(* and the AgentCoordinator (agent_coordinator.py).                        *)
(*                                                                         *)
(* Text is modelled at the character level: a Python str is a sequence of  *)
(* one-character strings, so that substring tests, lower-casing and the    *)
(* regular expressions of the source are computed and not assumed.         *)
(* Generated/LLM code is a sequence of tokens (see the section on code).   *)
(***************************************************************************)
EXTENDS Naturals, Integers, Sequences, FiniteSets, TLC

VARIABLES
    prompt,            \* user_prompt: the request text
    df,                \* the dataframe: its columns, in order, with dtype and mean
    use_ollama,        \* argument of generate_visualization_code
    ollama_available,  \* AgentCoordinator.ollama_available
    llm,               \* what self.ollama.generate does in this call
    pc,                \* position in the call
    response,          \* value returned by query_ollama
    code,              \* the code string in hand (extracted, generated, to execute)
    method,            \* method_used returned by generate_visualization_code
    fig,               \* the figure returned by execute_visualization_code
    queries,           \* number of calls made to the LLM collaborator
    steps,             \* the steps of generate_visualization_code taken, in order
    parsed,            \* result of parse_visualization_request
    sanitized,         \* result of _sanitize_code(code, df)
    resanitized,       \* result of _sanitize_code(sanitized, df)
    executed,          \* what execute_visualization_code did (None: not called)
    escaped,           \* TRUE when an exception left the call
    datasets,          \* SQLiteManager: the rows of the datasets table, by id
    tables,            \* SQLiteManager: the data tables, by table name
    seq,               \* SQLiteManager: the last id AUTOINCREMENT gave out
    saved,             \* history: what each successful save_dataset stored, by id
    returned,          \* SQLiteManager: the last call and what it returned
    skip_cleaning,     \* argument of OrchestratorAgent.execute
    agents,            \* what each collaborating agent's execute does in this call
    workflow_results   \* the dictionary OrchestratorAgent.execute builds and returns

vars == << prompt, df, use_ollama, ollama_available, llm, pc, response, code,
           method, fig, queries, steps, parsed, sanitized, resanitized, executed,
           escaped, datasets, tables, seq, saved, returned, skip_cleaning,
           agents, workflow_results >>

storeVars == << datasets, tables, seq, saved, returned >>

workflowVars == << skip_cleaning, agents, workflow_results >>

(***************************************************************************)
(* Bounds of the model.                                                    *)
(***************************************************************************)
MaxWords == 2      \* words in a generated request text
MaxCols == 2       \* columns in a dataframe
MaxCodeLen == 3    \* tokens in an enumerated code string
MaxRespLen == 4    \* tokens in an enumerated LLM response
MaxSaves == 2      \* datasets the store is given an id for

None == [none |-> TRUE]

\* No SQLiteManager in this run: an empty database and no call made.
NoStore ==
    /\ datasets = {}
    /\ tables = {}
    /\ seq = 0
    /\ saved = {}
    /\ returned = None

\* No OrchestratorAgent.execute call in this run.
NoWorkflow ==
    /\ skip_cleaning = FALSE
    /\ agents = None
    /\ workflow_results = None

(***************************************************************************)
(* Characters and strings.                                                 *)
(***************************************************************************)
UpperCase == <<"A","B","C","D","E","F","G","H","I","J","K","L","M",
               "N","O","P","Q","R","S","T","U","V","W","X","Y","Z">>
LowerCase == <<"a","b","c","d","e","f","g","h","i","j","k","l","m",
               "n","o","p","q","r","s","t","u","v","w","x","y","z">>
Digits == <<"0","1","2","3","4","5","6","7","8","9">>

\* The characters in code-point order (str comparison compares code points).
CodePoints == <<" ", ".">> \o Digits \o <<"<", ">">> \o UpperCase
                \o <<"_">> \o LowerCase

Ord(c) == CHOOSE i \in 1..Len(CodePoints) : CodePoints[i] = c

IsUpper(c) == \E i \in 1..Len(UpperCase) : UpperCase[i] = c
IsLower(c) == \E i \in 1..Len(LowerCase) : LowerCase[i] = c
IsDigit(c) == \E i \in 1..Len(Digits) : Digits[i] = c
IsSpace(c) == c \in {" ", "\n", "\t"}              \* regex \s
IsWordChar(c) == IsUpper(c) \/ IsLower(c) \/ IsDigit(c) \/ c = "_"   \* regex \w

DigitVal(c) == (CHOOSE i \in 1..Len(Digits) : Digits[i] = c) - 1

\* str.lower() on one character
ToLower(c) ==
    IF IsUpper(c)
    THEN LowerCase[CHOOSE i \in 1..Len(UpperCase) : UpperCase[i] = c]
    ELSE c

\* str.lower()
lower(s) == [i \in 1..Len(s) |-> ToLower(s[i])]

\* s[i:i+len(k)] == k  (1-based i)
StartsAt(s, k, i) ==
    /\ i >= 1
    /\ i + Len(k) - 1 <= Len(s)
    /\ SubSeq(s, i, i + Len(k) - 1) = k

\* Python's  k in s  on strings
Contains(k, s) == \E i \in 1..(Len(s) - Len(k) + 1) : StartsAt(s, k, i)

\* any(keyword in s for keyword in keywords)
AnyIn(keywords, s) == \E n \in 1..Len(keywords) : Contains(keywords[n], s)

\* ' '.join(words)
RECURSIVE Join(_)
Join(words) ==
    IF Len(words) = 0 THEN <<>>
    ELSE IF Len(words) = 1 THEN words[1]
    ELSE words[1] \o <<" ">> \o Join(Tail(words))

\* first index >= i of s that holds no whitespace / digit / word character
RECURSIVE SkipSpaces(_, _)
SkipSpaces(s, i) ==
    IF i <= Len(s) /\ IsSpace(s[i]) THEN SkipSpaces(s, i + 1) ELSE i

RECURSIVE SkipDigits(_, _)
SkipDigits(s, i) ==
    IF i <= Len(s) /\ IsDigit(s[i]) THEN SkipDigits(s, i + 1) ELSE i

RECURSIVE SkipWord(_, _)
SkipWord(s, i) ==
    IF i <= Len(s) /\ IsWordChar(s[i]) THEN SkipWord(s, i + 1) ELSE i

\* int(digits), digits a sequence of digit characters
RECURSIVE ToNat(_)
ToNat(ds) ==
    IF Len(ds) = 0 THEN 0
    ELSE 10 * ToNat(SubSeq(ds, 1, Len(ds) - 1)) + DigitVal(ds[Len(ds)])

RECURSIVE Pow10(_)
Pow10(n) == IF n = 0 THEN 1 ELSE 10 * Pow10(n - 1)

(***************************************************************************)
(* Column names, dataframes and request texts.                             *)
(***************************************************************************)
Age == <<"A","g","e">>
Income == <<"I","n","c","o","m","e">>
education == <<"e","d","u","c","a","t","i","o","n">>
Incme == <<"I","n","c","m","e">>
bogus_col == <<"b","o","g","u","s","_","c","o","l">>
MntTotal == <<"M","n","t","T","o","t","a","l">>
Response == <<"R","e","s","p","o","n","s","e">>
education_Graduation ==
    <<"e","d","u","c","a","t","i","o","n","_","G","r","a","d","u","a","t","i","o","n">>

\* The columns a dataframe is built from: name, dtype as select_dtypes sees
\* it, and the column mean (a rational n/d) for a numeric column.
ColumnPool ==
    { [name |-> Age,       dtype |-> "number", mean |-> [n |-> 45, d |-> 1]],
      [name |-> Income,    dtype |-> "number", mean |-> [n |-> 52000, d |-> 1]],
      [name |-> education, dtype |-> "object", mean |-> [n |-> 0, d |-> 1]] }

\* Sequences of distinct columns, 1..MaxCols long (a non-empty schema).
Injective(f) == \A i, j \in DOMAIN f : f[i] = f[j] => i = j
Schemas ==
    UNION { { s \in [1..n -> ColumnPool] : Injective(s) } : n \in 1..MaxCols }

\* df.columns
columns(d) == [i \in 1..Len(d) |-> d[i].name]
\* col in df.columns
InColumns(col, d) == \E i \in 1..Len(d) : d[i].name = col
\* df.select_dtypes(include=[...]).columns
RECURSIVE select_dtypes(_, _)
select_dtypes(d, dtypes) ==
    IF Len(d) = 0 THEN <<>>
    ELSE (IF d[1].dtype \in dtypes THEN <<d[1].name>> ELSE <<>>)
             \o select_dtypes(Tail(d), dtypes)
num_cols(d) == select_dtypes(d, {"number"})
cat_cols(d) == select_dtypes(d, {"object", "category"})

\* Prompts of the repository's tests (test_dashboard.py, test_bar_chart.py).
P_kpi == <<"S","h","o","w"," ","m","e"," ","a"," ","K","P","I">>
P_bar == <<"C","o","m","p","a","r","e"," ","w","i","t","h"," ","b","a","r"," ","c","h","a","r","t">>
P_scatter == <<"S","c","a","t","t","e","r"," ","p","l","o","t"," ","o","f"," ","X"," ","v","s"," ","Y">>
P_heatmap == <<"C","o","r","r","e","l","a","t","i","o","n"," ","h","e","a","t","m","a","p">>
P_treemap == <<"C","r","e","a","t","e"," ","a"," ","t","r","e","e","m","a","p">>
P_columns == <<"S","h","o","w"," ","I","n","c","o","m","e"," ","v","s"," ","M","n","t","T","o","t","a","l"," ","c","o","l","o","r","e","d"," ","b","y"," ","A","g","e">>
P_compare == <<"C","o","m","p","a","r","e"," ","a","v","e","r","a","g","e"," ","I","n","c","o","m","e"," ","b","y"," ","e","d","u","c","a","t","i","o","n">>
P_integration == <<"S","h","o","w"," ","I","n","c","o","m","e"," ","v","s"," ","A","g","e"," ","s","c","a","t","t","e","r"," ","p","l","o","t">>
P_threshold == <<"K","P","I"," ","o","f"," ","I","n","c","o","m","e"," ","b","e","l","o","w"," ","1","5"," ","c","o","l","o","r"," ","r","e","d">>
P_color_only == <<"K","P","I"," ","o","f"," ","A","g","e"," ","c","o","l","o","r"," ","b","l","u","e">>
P_trend == <<"S","h","o","w"," ","t","h","e"," ","t","r","e","n","d"," ","o","f"," ","I","n","c","o","m","e">>
P_hello == <<"h","e","l","l","o">>

TestPrompts ==
    { P_kpi, P_bar, P_scatter, P_heatmap, P_treemap, P_columns, P_compare,
      P_integration, P_threshold, P_color_only, P_trend, P_hello }

\* Words the generated request texts are made of.
Vocabulary ==
    { <<"K","P","I">>, <<"b","a","r">>, <<"p","l","o","t">>, <<"v","s">>,
      <<"C","o","r","r","e","l","a","t","i","o","n">>, <<"h","e","a","t","m","a","p">>,
      <<"t","r","e","e","m","a","p">>, <<"I","n","c","o","m","e">>, <<"a","g","e">>,
      <<"t","r","e","n","d">> }

GeneratedPrompts ==
    { Join(ws) : ws \in UNION { [1..n -> Vocabulary] : n \in 0..MaxWords } }

Requests == TestPrompts \cup GeneratedPrompts

(***************************************************************************)
(* Intent parser: VisualizationAgent.parse_visualization_request.          *)
(***************************************************************************)
\* The dict chart_keywords, in its insertion order.
chart_keywords ==
  << [chart_type |-> "kpi", keywords |->
         <<<<"k","p","i">>, <<"m","e","t","r","i","c">>, <<"c","a","r","d">>, <<"i","n","d","i","c","a","t","o","r">>, <<"c","o","n","v","e","r","s","i","o","n"," ","r","a","t","e">>>>],
     [chart_type |-> "bar", keywords |->
         <<<<"b","a","r">>, <<"c","o","m","p","a","r","e">>, <<"c","o","m","p","a","r","i","s","o","n">>, <<"a","c","r","o","s","s">>, <<"c","o","l","u","m","n">>>>],
     [chart_type |-> "scatter", keywords |->
         <<<<"s","c","a","t","t","e","r">>, <<"p","l","o","t">>, <<"r","e","l","a","t","i","o","n","s","h","i","p">>, <<"c","o","r","r","e","l","a","t","i","o","n"," ","p","l","o","t">>, <<"v","s">>>>],
     [chart_type |-> "heatmap", keywords |->
         <<<<"h","e","a","t","m","a","p">>, <<"c","o","r","r","e","l","a","t","i","o","n">>, <<"h","e","a","t"," ","m","a","p">>>>],
     [chart_type |-> "treemap", keywords |->
         <<<<"t","r","e","e","m","a","p">>, <<"t","r","e","e"," ","m","a","p">>, <<"h","i","e","r","a","r","c","h","i","c","a","l">>>>],
     [chart_type |-> "line", keywords |->
         <<<<"l","i","n","e">>, <<"t","r","e","n","d">>, <<"o","v","e","r"," ","t","i","m","e">>, <<"t","i","m","e"," ","s","e","r","i","e","s">>>>],
     [chart_type |-> "box", keywords |->
         <<<<"b","o","x">>, <<"d","i","s","t","r","i","b","u","t","i","o","n">>, <<"q","u","a","r","t","i","l","e">>>>],
     [chart_type |-> "histogram", keywords |->
         <<<<"h","i","s","t","o","g","r","a","m">>, <<"f","r","e","q","u","e","n","c","y">>, <<"d","i","s","t","r","i","b","u","t","i","o","n">>>>] >>

\* The loop of _detect_chart_type from table entry n on.
RECURSIVE detect_from(_, _)
detect_from(prompt_lower, n) ==
    IF n > Len(chart_keywords) THEN "bar"
    ELSE IF AnyIn(chart_keywords[n].keywords, prompt_lower)
         THEN chart_keywords[n].chart_type
         ELSE detect_from(prompt_lower, n + 1)

\* A plausible slip: the loop keeps going and the last matching kind wins.
RECURSIVE detect_last_from(_, _, _)
detect_last_from(prompt_lower, n, found) ==
    IF n > Len(chart_keywords) THEN found
    ELSE detect_last_from(prompt_lower, n + 1,
             IF AnyIn(chart_keywords[n].keywords, prompt_lower)
             THEN chart_keywords[n].chart_type ELSE found)
detect_chart_type_last(p) == detect_last_from(lower(p), 1, "bar")

detect_chart_type(p) == detect_from(lower(p), 1)

\* A plausible slip: the case-sensitive test alone.
RECURSIVE extract_columns_cased(_, _)
extract_columns_cased(p, d) ==
    IF Len(d) = 0 THEN <<>>
    ELSE (IF Contains(d[1].name, p) THEN <<d[1].name>> ELSE <<>>)
             \o extract_columns_cased(p, Tail(d))

RECURSIVE extract_columns(_, _)
extract_columns(p, d) ==
    IF Len(d) = 0 THEN <<>>
    ELSE (IF Contains(lower(d[1].name), lower(p)) \/ Contains(d[1].name, p)
          THEN <<d[1].name>> ELSE <<>>)
             \o extract_columns(p, Tail(d))

detect_aggregation(p) ==
    LET prompt_lower == lower(p) IN
    IF \/ Contains(<<"a","v","e","r","a","g","e">>, prompt_lower)
       \/ Contains(<<"m","e","a","n">>, prompt_lower)
       \/ Contains(<<"a","v","g">>, prompt_lower)
    THEN "mean"
    ELSE IF \/ Contains(<<"s","u","m">>, prompt_lower)
            \/ Contains(<<"t","o","t","a","l">>, prompt_lower)
    THEN "sum"
    ELSE IF Contains(<<"c","o","u","n","t">>, prompt_lower) THEN "count"
    ELSE IF Contains(<<"m","e","d","i","a","n">>, prompt_lower) THEN "median"
    ELSE "mean"

detect_sorting(p) ==
    LET prompt_lower == lower(p) IN
    IF \/ Contains(<<"d","e","s","c","e","n","d","i","n","g">>, prompt_lower)
       \/ Contains(<<"h","i","g","h","e","s","t">>, prompt_lower)
       \/ Contains(<<"m","o","s","t">>, prompt_lower)
    THEN "descending"
    ELSE IF \/ Contains(<<"a","s","c","e","n","d","i","n","g">>, prompt_lower)
            \/ Contains(<<"l","o","w","e","s","t">>, prompt_lower)
            \/ Contains(<<"l","e","a","s","t">>, prompt_lower)
    THEN "ascending"
    ELSE "None"

\* The alternatives of threshold_pattern, in order.
threshold_operators ==
    << <<"b","e","l","o","w">>, <<"a","b","o","v","e">>,
       <<"l","e","s","s"," ","t","h","a","n">>,
       <<"g","r","e","a","t","e","r"," ","t","h","a","n">>, <<"<">>, <<">">> >>

\* threshold_pattern matches at position i of s with alternative o.
ThresholdAt(s, i, o) ==
    /\ StartsAt(s, threshold_operators[o], i)
    /\ LET j == SkipSpaces(s, i + Len(threshold_operators[o]))
       IN  j <= Len(s) /\ IsDigit(s[j])

\* re.search(threshold_pattern, s): the leftmost match, or None.
threshold_search(s) ==
    LET hits == { i \in 1..Len(s) :
                    \E o \in 1..Len(threshold_operators) : ThresholdAt(s, i, o) }
    IN  IF hits = {} THEN None
        ELSE LET i  == CHOOSE h \in hits : \A g \in hits : h <= g
                 o  == CHOOSE a \in 1..Len(threshold_operators) :
                          /\ ThresholdAt(s, i, a)
                          /\ \A b \in 1..(a - 1) : ~ThresholdAt(s, i, b)
                 j  == SkipSpaces(s, i + Len(threshold_operators[o]))
                 e1 == SkipDigits(s, j)
                 dot == e1 <= Len(s) /\ s[e1] = "."
                 e2 == IF dot THEN SkipDigits(s, e1 + 1) ELSE e1
                 frac == IF dot THEN SubSeq(s, e1 + 1, e2 - 1) ELSE <<>>
             IN  [group1 |-> threshold_operators[o],
                  \* float(group(2)) as the rational n/d
                  group2 |-> [n |-> ToNat(SubSeq(s, j, e1 - 1) \o frac),
                              d |-> Pow10(Len(frac))]]

color_word == <<"c","o","l","o","r">>

\* color_pattern matches at position i of s.
ColorAt(s, i) ==
    /\ StartsAt(s, color_word, i)
    /\ LET j == SkipSpaces(s, i + Len(color_word))
       IN  /\ j > i + Len(color_word)
           /\ j <= Len(s) /\ IsWordChar(s[j])

\* re.search(color_pattern, s): the leftmost match's group(1), or None.
color_search(s) ==
    LET hits == { i \in 1..Len(s) : ColorAt(s, i) }
    IN  IF hits = {} THEN None
        ELSE LET i == CHOOSE h \in hits : \A g \in hits : h <= g
                 j == SkipSpaces(s, i + Len(color_word))
             IN  [group1 |-> SubSeq(s, j, SkipWord(s, j) - 1)]

\* The dict returned by _detect_color_condition: keys holds the keys present.
detect_color_condition(p) ==
    LET threshold_match == threshold_search(lower(p))
        color_match == color_search(lower(p))
        has_t == threshold_match # None
        has_c == color_match # None
    IN  [keys |-> (IF has_t THEN {"operator", "value"} ELSE {})
                    \cup (IF has_c THEN {"color"} ELSE {}),
         operator |-> IF has_t
                      THEN (IF threshold_match.group1 \in
                                  { <<"b","e","l","o","w">>,
                                    <<"l","e","s","s"," ","t","h","a","n">>, <<"<">> }
                            THEN "lt" ELSE "gt")
                      ELSE "",
         value |-> IF has_t THEN threshold_match.group2 ELSE [n |-> 0, d |-> 1],
         color |-> IF has_c THEN color_match.group1 ELSE <<>>]

parse_visualization_request(p, d) ==
    [chart_type |-> detect_chart_type(p),
     columns |-> extract_columns(p, d),
     aggregation |-> detect_aggregation(p),
     color_condition |-> detect_color_condition(p),
     sorting |-> detect_sorting(p)]

NoParse ==
    [chart_type |-> "", columns |-> <<>>, aggregation |-> "",
     color_condition |-> [keys |-> {}, operator |-> "", value |-> [n |-> 0, d |-> 1],
                          color |-> <<>>],
     sorting |-> ""]

(***************************************************************************)
(* Code strings.                                                           *)
(*                                                                         *)
(* A code string is a sequence of tokens; each token stands for a piece of *)
(* Python text.  Tokens inside an open call are its arguments, separated   *)
(* by ", "; tokens outside any call are separate lines.  A token is a      *)
(* record [k, a, col, col2]:                                               *)
(*   go        go.<a>(                    a in Figure, Scatter, Bar, ...   *)
(*   px        px.<a>(df                                                   *)
(*   px_of     px.<a>(<col>               col names the data: grouped_data,*)
(*             corr_matrix, df.head(10), df.head(100)                      *)
(*   px_grouped    px.<a>(df.groupby('<col>')['<col2>'].mean()             *)
(*             .reset_index()                                              *)
(*   call      dict(                                                       *)
(*   close     )                                                           *)
(*   arg       <a>='<col>'                a keyword argument, a string     *)
(*   argpath   path=['<col>']                                              *)
(*   kpi_number    number=dict(suffix="%", font=dict(size=48,              *)
(*             color="<col>"))                                             *)
(*   argdf     <a>=df['<col>']                                             *)
(*   dfref     df['<col>']                                                 *)
(*   groupby   df.groupby('<col>')                                         *)
(*   grouped   grouped_data = df.groupby('<col>')['<col2>'].<a>()          *)
(*             .reset_index()     (grouped_desc, grouped_asc: with         *)
(*             .sort_values(ascending=False / True) before .reset_index()) *)
(*   guarded   value = df['<col>'].mean() * 100 if '<col2>' in df.columns  *)
(*             else 0                                                      *)
(*   scale     df['<col>'] = df['<col>'] * 2     (writes to the dataframe) *)
(*   corr      selected_cols = <cols>; corr_matrix = df[selected_cols]     *)
(*             .corr()                    col holds the list of names      *)
(*   marker_brace  marker={'color': 'red'}                                 *)
(*   marker_dict   marker=dict(color='red')                                *)
(*   marker_fixed  marker=dict('color': 'red'}    (what Fix 1 makes)       *)
(*   data_eq   data=[]                                                     *)
(*   hist_quantile / hist_percent   histnorm='quantile' / 'percent'        *)
(*   opaque    <a>=<literal>              any other keyword argument, one  *)
(*             the called function accepts                                 *)
(*   fig_assign    fig =                  prefix of the token after it     *)
(*   fig_use   fig.update_layout(height=500)     (a = "update_traces":     *)
(*             fig.update_traces(marker=dict(size=8)))                     *)
(*   import_px import plotly.express as px                                 *)
(*   first_cols    x=df.columns[0], y=df.columns[1]                        *)
(*   boom      1/0                        raises when it runs              *)
(*   deep      1+1+ ... +1                an expression of some 3000 terms,*)
(*             nested deeper than the compiler's recursion limit           *)
(*   prose     a line of natural language                                  *)
(*   word      python                     (a fence's tag read as code)     *)
(* and, in an LLM response, the markdown around the code:                  *)
(*   fence_py  ```python  and a newline                                    *)
(*   fence     ```  and a newline                                          *)
(*   fence_end a newline and  ```  (a newline follows when text follows)   *)
(*   tick      `    (after a space, directly before the next token)        *)
(* A fence or a tick ends every open call of the text before it.           *)
(***************************************************************************)
Tok(k, a, col, col2) == [k |-> k, a |-> a, col |-> col, col2 |-> col2]
T0(k) == Tok(k, "", <<>>, <<>>)
Go(name) == Tok("go", name, <<>>, <<>>)
Px(fn) == Tok("px", fn, <<>>, <<>>)
Arg(key, col) == Tok("arg", key, col, <<>>)
ArgDf(key, col) == Tok("argdf", key, col, <<>>)
DfRef(col) == Tok("dfref", "", col, <<>>)
Scale(col) == Tok("scale", "", col, <<>>)
GroupBy(col) == Tok("groupby", "", col, <<>>)
Opaque(key) == Tok("opaque", key, <<>>, <<>>)

\* A code string (a Python str) with its tokens.
Code(toks) == [toks |-> toks]

\* The token's text contains ")".
HasCloseParen(t) ==
    t.k \in {"close", "groupby", "grouped", "grouped_desc", "grouped_asc",
             "px_grouped", "guarded", "corr", "marker_dict", "fig_use",
             "kpi_number"}
    \/ (t.k = "px_of" /\ t.col \in {<<"df.head(10)">>, <<"df.head(100)">>})
\* The token's text contains "df['<col>']".
HasDfSubscript(t) == t.k \in {"argdf", "dfref", "guarded", "scale"}
\* The token's text contains "groupby('<col>')".
IsGrouped(t) == t.k \in {"grouped", "grouped_desc", "grouped_asc"}
HasGroupby(t) == t.k \in {"groupby", "px_grouped"} \/ IsGrouped(t)
\* The token opens a call.
IsOpener(t) == t.k \in {"go", "px", "call", "px_of", "px_grouped"}
\* The token's text contains "```" / a backtick.
IsTriple(t) == t.k \in {"fence_py", "fence", "fence_end"}
IsBacktick(t) == IsTriple(t) \/ t.k = "tick"

\* Number of calls open before token i.
RECURSIVE depth_before(_, _)
depth_before(toks, i) ==
    IF i <= 1 THEN 0
    ELSE LET p == toks[i - 1]
             d == depth_before(toks, i - 1)
         IN  IF IsBacktick(p) \/ IsBacktick(toks[i]) THEN 0
             ELSE IF IsOpener(p) THEN d + 1
             ELSE IF p.k = "close" /\ d > 0 THEN d - 1
             ELSE d

\* Token i > 1 starts a new line of the text.
NewlineBefore(toks, i) ==
    LET t == toks[i]
        p == toks[i - 1]
    IN  IF IsTriple(t) \/ IsTriple(p) THEN TRUE
        ELSE IF t.k = "tick" \/ p.k = "tick" \/ p.k = "fig_assign" THEN FALSE
        ELSE depth_before(toks, i) = 0 /\ t.k # "close"

\* Token i > 1 follows a comma: it is a further argument of an open call.
CommaBefore(toks, i) ==
    LET t == toks[i]
        p == toks[i - 1]
    IN  /\ ~IsBacktick(t) /\ ~IsBacktick(p)
        /\ p.k \notin {"fig_assign", "go", "call"}
        /\ t.k # "close"
        /\ depth_before(toks, i) > 0

HasTok(toks, k) == \E i \in 1..Len(toks) : toks[i].k = k

(***************************************************************************)
(* difflib.get_close_matches(word, possibilities, n=1, cutoff=0.6).        *)
(***************************************************************************)
\* The length of the longest common run a[i..] = b[j..] within the ends.
RECURSIVE run_length(_, _, _, _, _, _)
run_length(a, b, i, j, ahi, bhi) ==
    IF i > ahi \/ j > bhi THEN 0
    ELSE IF a[i] # b[j] THEN 0
    ELSE 1 + run_length(a, b, i + 1, j + 1, ahi, bhi)

\* SequenceMatcher.find_longest_match(alo, ahi, blo, bhi), 1-based and with
\* inclusive ends: the longest block a[i..i+k-1] = b[j..j+k-1]; of those the
\* one starting earliest in a, and of those the one starting earliest in b.
find_longest_match(a, b, alo, ahi, blo, bhi) ==
    LET blocks == { << p[1], p[2], run_length(a, b, p[1], p[2], ahi, bhi) >> :
                      p \in { q \in (alo..ahi) \X (blo..bhi) : a[q[1]] = b[q[2]] } }
    IN  IF blocks = {} THEN <<alo, blo, 0>>
        ELSE CHOOSE m \in blocks : \A o \in blocks :
                 \/ m[3] > o[3]
                 \/ m[3] = o[3] /\ m[1] < o[1]
                 \/ m[3] = o[3] /\ m[1] = o[1] /\ m[2] <= o[2]

\* Sum of the sizes of get_matching_blocks() within a[alo..ahi], b[blo..bhi].
RECURSIVE matches(_, _, _, _, _, _)
matches(a, b, alo, ahi, blo, bhi) ==
    IF alo > ahi \/ blo > bhi THEN 0
    ELSE LET m == find_longest_match(a, b, alo, ahi, blo, bhi)
         IN  IF m[3] = 0 THEN 0
             ELSE m[3] + matches(a, b, alo, m[1] - 1, blo, m[2] - 1)
                       + matches(a, b, m[1] + m[3], ahi, m[2] + m[3], bhi)

\* SequenceMatcher(a=x, b=word).ratio() = 2*M/T, kept as the pair <<2M, T>>.
ratio(x, word) == << 2 * matches(x, word, 1, Len(x), 1, Len(word)),
                     Len(x) + Len(word) >>

\* cutoff = 0.6 = 3/5
CutoffNum == 3
CutoffDen == 5
\* ratio() >= cutoff  (an empty pair of strings has ratio 1.0)
AtLeastCutoff(r) == r[2] = 0 \/ r[1] * CutoffDen >= CutoffNum * r[2]

\* str comparison x < y
RECURSIVE StrLess(_, _)
StrLess(x, y) ==
    IF Len(y) = 0 THEN FALSE
    ELSE IF Len(x) = 0 THEN TRUE
    ELSE IF x[1] = y[1] THEN StrLess(Tail(x), Tail(y))
    ELSE Ord(x[1]) < Ord(y[1])

\* (score, x) < (score2, y) as heapq.nlargest compares the tuples
ScoreLess(x, y, word) ==
    LET rx == ratio(x, word)
        ry == ratio(y, word)
    IN  \/ rx[1] * ry[2] < ry[1] * rx[2]
        \/ rx[1] * ry[2] = ry[1] * rx[2] /\ StrLess(x, y)

\* The list get_close_matches returns (n=1): empty, or the best match.
get_close_matches(word, possibilities) ==
    LET good == { i \in 1..Len(possibilities) :
                     AtLeastCutoff(ratio(possibilities[i], word)) }
    IN  IF good = {} THEN <<>>
        ELSE << possibilities[CHOOSE i \in good : \A j \in good :
                   ~ScoreLess(possibilities[i], possibilities[j], word)] >>

(***************************************************************************)
(* VisualizationAgent._sanitize_code.                                      *)
(***************************************************************************)
\* First token after i whose text holds ")", or Len+1: where [^)]* must stop.
RECURSIVE span_end(_, _)
span_end(toks, i) ==
    IF i > Len(toks) THEN i
    ELSE IF HasCloseParen(toks[i]) THEN i
    ELSE span_end(toks, i + 1)

\* The last  <key>='<col>'  that  (go\.\w+\([^)]*\b)<key>\s*=\s*'([^']+)'
\* can reach from the go.<name>( at i: [^)]* is greedy.  0 when none.
last_arg_in_span(toks, key, i) ==
    LET js == { j \in (i + 1)..(span_end(toks, i + 1) - 1) :
                  toks[j].k = "arg" /\ toks[j].a = key }
    IN  IF js = {} THEN 0 ELSE CHOOSE j \in js : \A h \in js : h <= j

\* re.sub of that pattern by  \1<key>=df['\2']  from token p on: matches are
\* found left to right and do not overlap.
RECURSIVE rewrite_key(_, _, _)
rewrite_key(toks, key, p) ==
    LET starts == { i \in p..Len(toks) :
                      toks[i].k = "go" /\ last_arg_in_span(toks, key, i) # 0 }
    IN  IF starts = {} THEN toks
        ELSE LET i == CHOOSE s \in starts : \A o \in starts : s <= o
                 j == last_arg_in_span(toks, key, i)
             IN  rewrite_key([toks EXCEPT ![j] = ArgDf(key, toks[j].col)],
                             key, j + 1)

\* Fix 1 (lines 494-502).
fix_go_syntax(toks) ==
    IF \E i \in 1..Len(toks) :
          toks[i].k = "go" /\ toks[i].a \in {"Figure", "Scatter", "Bar"}
    THEN LET c1 == rewrite_key(toks, "x", 1)
             c2 == rewrite_key(c1, "y", 1)
             c3 == rewrite_key(c2, "text", 1)
             c4 == rewrite_key(c3, "values", 1)
         IN  [i \in 1..Len(c4) |->
                 IF c4[i].k = "marker_brace" THEN T0("marker_fixed") ELSE c4[i]]
    ELSE toks

\* Fix 2 (lines 505-507): 'go.Layout' in code and 'data=' in code
invalid_layout(toks) ==
    /\ \E i \in 1..Len(toks) : toks[i].k = "go" /\ toks[i].a = "Layout"
    /\ HasTok(toks, "data_eq")

\* Fix 3 (line 510)
fix_histnorm(toks) ==
    [i \in 1..Len(toks) |->
        IF toks[i].k = "hist_quantile" THEN T0("hist_percent") ELSE toks[i]]

\* re.findall(column_pattern, code) / re.findall(groupby_pattern, code)
RECURSIVE findall(_, _)
findall(toks, groupby) ==
    IF Len(toks) = 0 THEN <<>>
    ELSE (IF (groupby /\ HasGroupby(toks[1])) \/ (~groupby /\ HasDfSubscript(toks[1]))
          THEN <<toks[1].col>> ELSE <<>>)
             \o findall(Tail(toks), groupby)

\* code.replace(f"df['{col}']", f"df['{new}']") / the same for groupby('..')
replace_col(toks, groupby, col, new) ==
    [i \in 1..Len(toks) |->
        IF /\ (groupby /\ HasGroupby(toks[i])) \/ (~groupby /\ HasDfSubscript(toks[i]))
           /\ toks[i].col = col
        THEN [toks[i] EXCEPT !.col = new]
        ELSE toks[i]]

\* A plausible slip: a name without a close match is skipped, not rejected.
RECURSIVE fix_columns_lenient(_, _, _, _, _)
fix_columns_lenient(toks, used, n, groupby, d) ==
    IF n > Len(used) THEN Code(toks)
    ELSE IF InColumns(used[n], d)
    THEN fix_columns_lenient(toks, used, n + 1, groupby, d)
    ELSE LET close == get_close_matches(used[n], columns(d))
         IN  fix_columns_lenient(
                 IF Len(close) > 0
                 THEN replace_col(toks, groupby, used[n], close[1]) ELSE toks,
                 used, n + 1, groupby, d)

\* The loops of Fix 4 and Fix 5 (lines 516-526, 531-540) from the n-th name
\* found on: None as soon as a name has no close match.
RECURSIVE fix_columns(_, _, _, _, _)
fix_columns(toks, used, n, groupby, d) ==
    IF n > Len(used) THEN Code(toks)
    ELSE IF InColumns(used[n], d) THEN fix_columns(toks, used, n + 1, groupby, d)
    ELSE LET close == get_close_matches(used[n], columns(d))
         IN  IF Len(close) > 0
             THEN fix_columns(replace_col(toks, groupby, used[n], close[1]),
                              used, n + 1, groupby, d)
             ELSE None

\* A plausible slip: the go.* rewriting runs after the column checks, so the
\* references it introduces are not checked.
sanitize_code_rewrite_last(c, d) ==
    LET fix1(c5) == IF c5 = None THEN None ELSE Code(fix_go_syntax(c5.toks))
        fix5(c4) == IF c4 = None THEN None
                    ELSE fix_columns(c4.toks, findall(c4.toks, TRUE), 1, TRUE, d)
        fix4(c3) == fix5(fix_columns(c3, findall(c3, FALSE), 1, FALSE, d))
        fix2(c1) == IF invalid_layout(c1) THEN None
                    ELSE fix1(fix4(fix_histnorm(c1)))
    IN  fix2(c.toks)

sanitize_code(c, d) ==
    LET fix5(c4) == IF c4 = None THEN None
                    ELSE fix_columns(c4.toks, findall(c4.toks, TRUE), 1, TRUE, d)
        fix4(c3) == fix5(fix_columns(c3, findall(c3, FALSE), 1, FALSE, d))
        fix2(c1) == IF invalid_layout(c1) THEN None ELSE fix4(fix_histnorm(c1))
    IN  fix2(fix_go_syntax(c.toks))

(***************************************************************************)
(* compile(code, '<string>', 'exec'): does the text parse as Python.       *)
(***************************************************************************)
\* The keyword names a token passes when it is an argument of a call.
KeywordsOf(t) ==
    IF t.k \in {"arg", "argdf", "opaque"} THEN {t.a}
    ELSE IF t.k = "argpath" THEN {"path"}
    ELSE IF t.k = "kpi_number" THEN {"number"}
    ELSE IF t.k \in {"marker_brace", "marker_dict"} THEN {"marker"}
    ELSE IF t.k \in {"hist_quantile", "hist_percent"} THEN {"histnorm"}
    ELSE IF t.k = "data_eq" THEN {"data"}
    ELSE IF IsGrouped(t) THEN {"grouped_data"}
    ELSE IF t.k = "guarded" THEN {"value"}
    ELSE IF t.k = "first_cols" THEN {"x", "y"}
    ELSE {}
\* Tokens that are a complete expression.
IsAtom(t) == t.k \in {"dfref", "groupby", "fig_use", "boom", "word", "deep"}
\* Tokens that never parse.
IsGarbage(t) == t.k \in {"prose", "marker_fixed"} \/ IsBacktick(t)

\* The parser from token i on.  stack: one frame per open call, holding the
\* keyword names passed so far; pending: the token before was  fig = ;
\* repeats: a keyword argument may be repeated (the parser proper allows it,
\* the compiler's later pass rejects it).
RECURSIVE parses(_, _, _, _, _)
parses(toks, i, stack, pending, repeats) ==
    IF i > Len(toks) THEN Len(stack) = 0 /\ ~pending
    ELSE
    LET t == toks[i]
        depth == Len(stack)
        top == stack[depth]
        push == Append(stack, {})
        pop == SubSeq(stack, 1, depth - 1)
        with(names) == [stack EXCEPT ![depth] = top \cup names]
    IN
    IF IsGarbage(t) THEN FALSE
    ELSE IF depth = 0 THEN
        \* a statement, or the value of  fig =
        IF t.k = "close" \/ (pending /\ t.k = "import_px") THEN FALSE
        ELSE IF t.k = "fig_assign" THEN parses(toks, i + 1, stack, TRUE, repeats)
        ELSE IF IsOpener(t) THEN parses(toks, i + 1, push, FALSE, repeats)
        ELSE parses(toks, i + 1, stack, FALSE, repeats)
    ELSE IF pending THEN
        \* the value of the keyword argument  fig=
        IF IsAtom(t) THEN parses(toks, i + 1, stack, FALSE, repeats)
        ELSE IF IsOpener(t) THEN parses(toks, i + 1, push, FALSE, repeats)
        ELSE FALSE
    ELSE IF t.k = "close" THEN parses(toks, i + 1, pop, FALSE, repeats)
    ELSE IF t.k = "fig_assign"
         THEN /\ repeats \/ "fig" \notin top
              /\ parses(toks, i + 1, with({"fig"}), TRUE, repeats)
    ELSE IF t.k \in {"corr", "import_px", "scale"} THEN FALSE
    ELSE IF KeywordsOf(t) # {}
         THEN /\ repeats \/ KeywordsOf(t) \cap top = {}
              /\ parses(toks, i + 1, with(KeywordsOf(t)), FALSE, repeats)
    ELSE \* a positional argument: none may follow a keyword argument
         /\ top = {}
         /\ IF IsOpener(t) THEN parses(toks, i + 1, push, FALSE, repeats)
            ELSE parses(toks, i + 1, stack, FALSE, repeats)

\* compile() does not raise SyntaxError.
Compiles(toks) == parses(toks, 1, <<>>, FALSE, FALSE)

\* The exception compile() raises, "None" when it returns.  The parser runs
\* first; the compiler then recurses over the tree, and only after that
\* reports a repeated keyword argument.
compile_error(toks) ==
    IF ~parses(toks, 1, <<>>, FALSE, TRUE) THEN "SyntaxError"
    ELSE IF HasTok(toks, "deep") THEN "RecursionError"
    ELSE IF ~Compiles(toks) THEN "SyntaxError"
    ELSE "None"

(***************************************************************************)
(* AgentCoordinator: extract_code_from_response, _validate_code_syntax.    *)
(***************************************************************************)
\* First token after i that holds "```" / a backtick; 0 when there is none.
next_triple(toks, i) ==
    LET js == { j \in (i + 1)..Len(toks) : IsTriple(toks[j]) }
    IN  IF js = {} THEN 0 ELSE CHOOSE j \in js : \A h \in js : j <= h
next_backtick(toks, i) ==
    LET js == { j \in (i + 1)..Len(toks) : IsBacktick(toks[j]) }
    IN  IF js = {} THEN 0 ELSE CHOOSE j \in js : \A h \in js : j <= h

\* Where each pattern can start a match: ```python\n , ```\n (a closing fence
\* followed by more text reads the same), and a backtick.
pattern_start(toks, n, i) ==
    IF n = 1 THEN toks[i].k = "fence_py" /\ next_triple(toks, i) # 0
    ELSE IF n = 2
    THEN /\ toks[i].k = "fence" \/ (toks[i].k = "fence_end" /\ i < Len(toks))
         /\ next_triple(toks, i) # 0
    ELSE IsBacktick(toks[i]) /\ next_backtick(toks, i) # 0

\* re.findall(patterns[n], response, re.DOTALL): is there a match, and
\* matches[0].strip()
pattern_matches(toks, n) == \E i \in 1..Len(toks) : pattern_start(toks, n, i)
first_match(toks, n) ==
    LET i == CHOOSE s \in 1..Len(toks) :
                /\ pattern_start(toks, n, s)
                /\ \A o \in 1..(s - 1) : ~pattern_start(toks, n, o)
        j == IF n = 3 THEN next_backtick(toks, i) ELSE next_triple(toks, i)
    IN  (IF n = 3 /\ toks[i].k = "fence_py" THEN <<T0("word")>> ELSE <<>>)
            \o SubSeq(toks, i + 1, j - 1)

\* The line holds one of 'fig =', 'px.', 'go.', 'df[', 'import'.
IsCodeIndicator(t) ==
    t.k \in {"fig_assign", "px", "go", "argdf", "dfref", "guarded", "corr",
             "scale"}

\* First token of the line token i is on.
RECURSIVE line_start(_, _)
line_start(toks, i) ==
    IF i = 1 \/ NewlineBefore(toks, i) THEN i ELSE line_start(toks, i - 1)

\* A plausible slip: the patterns listed in the opposite order.
extract_code_from_response_inline_first(r) ==
    IF r = None \/ Len(r.toks) = 0 THEN None
    ELSE LET toks == r.toks IN
         IF pattern_matches(toks, 3) THEN Code(first_match(toks, 3))
         ELSE IF pattern_matches(toks, 2) THEN Code(first_match(toks, 2))
         ELSE IF pattern_matches(toks, 1) THEN Code(first_match(toks, 1))
         ELSE LET code_toks == { i \in 1..Len(toks) : IsCodeIndicator(toks[i]) }
              IN  IF code_toks = {} THEN Code(toks)
                  ELSE LET m == CHOOSE i \in code_toks : \A o \in code_toks : i <= o
                       IN  Code(SubSeq(toks, line_start(toks, m), Len(toks)))

\* A plausible slip: None when the response holds nothing that reads as code.
extract_code_from_response_none_without_code(r) ==
    IF r = None \/ Len(r.toks) = 0 THEN None
    ELSE LET toks == r.toks IN
         IF pattern_matches(toks, 1) THEN Code(first_match(toks, 1))
         ELSE IF pattern_matches(toks, 2) THEN Code(first_match(toks, 2))
         ELSE IF pattern_matches(toks, 3) THEN Code(first_match(toks, 3))
         ELSE LET code_toks == { i \in 1..Len(toks) : IsCodeIndicator(toks[i]) }
              IN  IF code_toks = {} THEN None
                  ELSE LET m == CHOOSE i \in code_toks : \A o \in code_toks : i <= o
                       IN  Code(SubSeq(toks, line_start(toks, m), Len(toks)))

\* r is None, or the response text.
extract_code_from_response(r) ==
    IF r = None \/ Len(r.toks) = 0 THEN None
    ELSE LET toks == r.toks IN
         IF pattern_matches(toks, 1) THEN Code(first_match(toks, 1))
         ELSE IF pattern_matches(toks, 2) THEN Code(first_match(toks, 2))
         ELSE IF pattern_matches(toks, 3) THEN Code(first_match(toks, 3))
         ELSE LET code_toks == { i \in 1..Len(toks) : IsCodeIndicator(toks[i]) }
              IN  IF code_toks = {} THEN Code(toks)
                  ELSE LET m == CHOOSE i \in code_toks : \A o \in code_toks : i <= o
                       IN  Code(SubSeq(toks, line_start(toks, m), Len(toks)))

\* 'fig' in code
ContainsFig(toks) == HasTok(toks, "fig_assign") \/ HasTok(toks, "fig_use")

\* re.search over invalid_patterns (lines 195-204)
has_invalid_pattern(toks) ==
    \/ HasTok(toks, "marker_brace")
    \/ \E i \in 1..(Len(toks) - 1) :
          toks[i].k = "arg" /\ toks[i].a = "x" /\ CommaBefore(toks, i + 1)
    \/ \E i \in 1..Len(toks) : toks[i].k = "go" /\ toks[i].a = "Layout"

\* A plausible slip: the result of the pattern check is dropped.
validate_code_syntax_compile_only(c) ==
    LET e == compile_error(c.toks)
    IN  IF e = "SyntaxError" THEN [returns |-> FALSE, raises |-> "None"]
        ELSE IF e # "None" THEN [returns |-> FALSE, raises |-> e]
        ELSE [returns |-> TRUE, raises |-> "None"]

\* A plausible slip: except Exception in place of except SyntaxError.
validate_code_syntax_catch_all(c) ==
    [returns |-> compile_error(c.toks) = "None" /\ ~has_invalid_pattern(c.toks),
     raises |-> "None"]

\* What the call returns, and the exception that leaves it ("None": none):
\* only SyntaxError is caught.
validate_code_syntax(c) ==
    LET e == compile_error(c.toks)
    IN  IF e = "SyntaxError" THEN [returns |-> FALSE, raises |-> "None"]
        ELSE IF e # "None" THEN [returns |-> FALSE, raises |-> e]
        ELSE [returns |-> ~has_invalid_pattern(c.toks), raises |-> "None"]

(***************************************************************************)
(* VisualizationAgent: the code generators and                             *)
(* create_visualization_from_prompt.                                       *)
(***************************************************************************)
red == <<"r","e","d">>
green == <<"g","r","e","e","n">>

\* The column of the dataframe named col (col is in df.columns).
column(col, d) == d[CHOOSE i \in 1..Len(d) : d[i].name = col]

\* x < y for the rationals x, y (positive denominators)
RatLess(x, y) == x.n * y.d < y.n * x.d

\* What generate_kpi_code does: the exception it raises ("None": none) and the
\* code it returns.  condition is the dict of _detect_color_condition.
generate_kpi_code(metric_col, d, condition) ==
    LET present == InColumns(metric_col, d)
        value == IF present THEN column(metric_col, d).mean ELSE [n |-> 0, d |-> 1]
        given == IF "color" \in condition.keys THEN condition.color ELSE red
        color == IF condition.keys = {} THEN green
                 ELSE IF condition.operator = "lt" /\ RatLess(value, condition.value)
                 THEN given
                 ELSE IF condition.operator = "gt" /\ RatLess(condition.value, value)
                 THEN given
                 ELSE green
    IN  IF present /\ column(metric_col, d).dtype # "number"
        THEN [raises |-> "TypeError", code |-> None]       \* .mean() of strings
        ELSE IF condition.keys # {} /\ "operator" \notin condition.keys
        THEN [raises |-> "KeyError", code |-> None]        \* condition['operator']
        ELSE [raises |-> "None", code |-> Code(<<
                 Tok("guarded", "", metric_col, metric_col),
                 T0("fig_assign"), Go("Figure"), Go("Indicator"),
                 Opaque("mode"), Opaque("value"), Opaque("title"),
                 Tok("kpi_number", "", color, <<>>), Opaque("domain"),
                 T0("close"), T0("close"), T0("fig_use") >>)]

\* A plausible slip: the two columns change places.
generate_bar_chart_code_swapped(x_col, y_col, aggregation, sorting) ==
    Code(<< Tok(IF sorting = "descending" THEN "grouped_desc"
                ELSE IF sorting = "ascending" THEN "grouped_asc"
                ELSE "grouped", aggregation, y_col, x_col),
            T0("fig_assign"), Tok("px_of", "bar", <<"grouped_data">>, <<>>),
            Arg("x", y_col), Arg("y", x_col), Opaque("title"), Opaque("labels"),
            Arg("color", x_col), Opaque("color_continuous_scale"),
            Opaque("template"), T0("close"), T0("fig_use") >>)

generate_bar_chart_code(x_col, y_col, aggregation, sorting) ==
    Code(<< Tok(IF sorting = "descending" THEN "grouped_desc"
                ELSE IF sorting = "ascending" THEN "grouped_asc"
                ELSE "grouped", aggregation, x_col, y_col),
            T0("fig_assign"), Tok("px_of", "bar", <<"grouped_data">>, <<>>),
            Arg("x", x_col), Arg("y", y_col), Opaque("title"), Opaque("labels"),
            Arg("color", y_col), Opaque("color_continuous_scale"),
            Opaque("template"), T0("close"), T0("fig_use") >>)

\* color_col is None or a column name
generate_scatter_code(x_col, y_col, color_col) ==
    Code(<< T0("fig_assign"), Px("scatter"), Arg("x", x_col), Arg("y", y_col) >>
         \o (IF color_col = None THEN <<>> ELSE <<Arg("color", color_col)>>)
         \o << Opaque("title"), Opaque("labels"), Opaque("template"),
               Opaque("opacity"), T0("close"),
               Tok("fig_use", "update_traces", <<>>, <<>>), T0("fig_use") >>)

generate_heatmap_code(cols) ==
    Code(<< Tok("corr", "", cols, <<>>),
            T0("fig_assign"), Tok("px_of", "imshow", <<"corr_matrix">>, <<>>),
            Opaque("title"), Opaque("labels"), Opaque("color_continuous_scale"),
            Opaque("aspect"), Opaque("template"), T0("close"), T0("fig_use") >>)

generate_treemap_code(values_col, group_col) ==
    Code(<< Tok("grouped", "sum", group_col, values_col),
            T0("fig_assign"), Tok("px_of", "treemap", <<"grouped_data">>, <<>>),
            Tok("argpath", "path", group_col, <<>>), Arg("values", values_col),
            Opaque("title"), Arg("color", values_col),
            Opaque("color_continuous_scale"), Opaque("template"),
            T0("close"), T0("fig_use") >>)

\* The code of the except branch (lines 399-404).
fallback_code ==
    Code(<< T0("fig_assign"), Tok("px_of", "bar", <<"df.head(10)">>, <<>>),
            T0("first_cols"), Opaque("title"), Opaque("template"),
            T0("close"), T0("fig_use") >>)

\* columns[:4]
first4(s) == SubSeq(s, 1, IF Len(s) < 4 THEN Len(s) ELSE 4)

\* The body of the try block (lines 318-395): the exception it raises and the
\* code it builds.  The candidate columns are columns of the dataframe, so the
\* tests  columns[i] in df.columns  succeed.
synthesize(parsed_, d) ==
    LET chart_type == parsed_.chart_type
        cols == parsed_.columns
        ok(c) == [raises |-> "None", code |-> c]
        IndexError == [raises |-> "IndexError", code |-> None]
        nums == num_cols(d)
        cats == cat_cols(d)
        all == columns(d)
    IN
    IF chart_type = "kpi"
    THEN generate_kpi_code(IF Len(cols) > 0 THEN cols[1] ELSE Response, d,
                           parsed_.color_condition)
    ELSE IF chart_type = "bar"
    THEN IF Len(cols) >= 2
         THEN ok(generate_bar_chart_code(cols[1], cols[2],
                                         parsed_.aggregation, parsed_.sorting))
         ELSE IF Len(cats) > 0 /\ Len(nums) > 0
         THEN ok(generate_bar_chart_code(cats[1], nums[1],
                                         parsed_.aggregation, parsed_.sorting))
         ELSE IF Len(all) = 0 THEN IndexError
         ELSE ok(generate_bar_chart_code(all[1],
                     IF Len(all) > 1 THEN all[2] ELSE all[1],
                     parsed_.aggregation, parsed_.sorting))
    ELSE IF chart_type = "scatter"
    THEN IF Len(cols) >= 2
         THEN ok(generate_scatter_code(cols[1], cols[2],
                     IF Len(cols) > 2 THEN cols[3] ELSE None))
         ELSE IF Len(nums) >= 2
         THEN ok(generate_scatter_code(nums[1], nums[2], None))
         ELSE IF Len(all) < 2 THEN IndexError
         ELSE ok(generate_scatter_code(all[1], all[2], None))
    ELSE IF chart_type = "heatmap"
    THEN LET valid_cols == SelectSeq(cols, LAMBDA c : column(c, d).dtype = "number")
         IN  IF Len(cols) >= 2 /\ Len(valid_cols) >= 2
             THEN ok(generate_heatmap_code(valid_cols))
             ELSE ok(generate_heatmap_code(
                         IF Len(nums) >= 2 THEN first4(nums) ELSE first4(all)))
    ELSE IF chart_type = "treemap"
    THEN IF Len(cols) >= 2
         THEN ok(generate_treemap_code(cols[2], cols[1]))
         ELSE IF Len(cats) > 0 /\ Len(nums) > 0
         THEN ok(generate_treemap_code(nums[1], cats[1]))
         ELSE IF Len(all) = 0 THEN IndexError
         ELSE ok(generate_treemap_code(
                     IF Len(all) > 1 THEN all[2] ELSE all[1], all[1]))
    ELSE ok(generate_bar_chart_code(education_Graduation, MntTotal, "mean", "None"))

\* The pair (code, chart_type) the call returns.
\* A plausible slip: no except branch, so a branch that fails leaves no code.
create_visualization_from_prompt_without_except(p, d) ==
    LET parsed_ == parse_visualization_request(p, d)
        built == synthesize(parsed_, d)
    IN  [code |-> built.code, chart_type |-> parsed_.chart_type]

create_visualization_from_prompt(p, d) ==
    LET parsed_ == parse_visualization_request(p, d)
        built == synthesize(parsed_, d)
    IN  [code |-> IF built.raises = "None" THEN built.code ELSE fallback_code,
         chart_type |-> parsed_.chart_type]

(***************************************************************************)
(* VisualizationAgent.execute_visualization_code.                          *)
(*                                                                         *)
(* Running code: exec() compiles the text and runs its statements in       *)
(* order.  The model knows the errors that follow from the dataframe and   *)
(* from the shape of the code; a call is otherwise taken to succeed.       *)
(***************************************************************************)
\* The call token i is an argument of: the nearest call still open at j
\* (0: none), skip counting the calls closed on the way back.
RECURSIVE enclosing(_, _, _)
enclosing(toks, j, skip) ==
    IF j = 0 THEN 0
    ELSE IF toks[j].k = "close" THEN enclosing(toks, j - 1, skip + 1)
    ELSE IF IsOpener(toks[j])
         THEN IF skip = 0 THEN j ELSE enclosing(toks, j - 1, skip - 1)
    ELSE enclosing(toks, j - 1, skip)

\* The last statement before token i of the kinds given; 0 when none.
last_statement(toks, i, kinds) ==
    LET js == { j \in 1..(i - 1) :
                  toks[j].k \in kinds /\ depth_before(toks, j) = 0 }
    IN  IF js = {} THEN 0 ELSE CHOOSE j \in js : \A h \in js : h <= j

\* When token i runs, the global fig holds a plotly figure.
fig_is_figure(toks, i) ==
    LET j == last_statement(toks, i, {"fig_assign"})
    IN  j # 0 /\ j < Len(toks) /\ toks[j + 1].k \in {"go", "px", "px_of", "px_grouped"}

\* The data frame a px call draws from has the column col.
px_has_column(toks, e, col, d) ==
    LET o == toks[e]
        g == last_statement(toks, e, {"grouped", "grouped_desc", "grouped_asc"})
    IN  IF o.k = "px_grouped" THEN col \in {o.col, o.col2}
        ELSE IF o.k = "px_of" /\ o.col = <<"grouped_data">>
        THEN g # 0 /\ col \in {toks[g].col, toks[g].col2}
        ELSE IF o.k = "px_of" /\ o.col = <<"corr_matrix">> THEN TRUE
        ELSE InColumns(col, d)

\* df.groupby(by)[of].<agg>().reset_index() raises.
groupby_raises(by, of, agg, d) ==
    \/ ~InColumns(by, d) \/ ~InColumns(of, d)
    \/ by = of                                    \* cannot insert, already exists
    \/ agg \in {"mean", "median"} /\ column(of, d).dtype # "number"

\* Token i raises when it runs.  strict: the installed pandas refuses to
\* correlate a column of strings (older ones leave the column out).
raises_at(toks, i, d, strict) ==
    LET t == toks[i]
        e == enclosing(toks, i - 1, 0)
        parent == IF e = 0 THEN "" ELSE toks[e].k
    IN  IF t.k \in {"boom", "word", "deep"} THEN TRUE
        ELSE IF t.k \in {"dfref", "argdf", "groupby", "scale"}
        THEN ~InColumns(t.col, d)
        ELSE IF IsGrouped(t) THEN groupby_raises(t.col, t.col2, t.a, d)
        ELSE IF t.k = "px_grouped" THEN groupby_raises(t.col, t.col2, "mean", d)
        ELSE IF t.k = "guarded"
        THEN /\ InColumns(t.col2, d)
             /\ ~InColumns(t.col, d) \/ column(t.col, d).dtype # "number"
        ELSE IF t.k = "corr"
        THEN \E n \in 1..Len(t.col) :
                \/ ~InColumns(t.col[n], d)
                \/ strict /\ column(t.col[n], d).dtype # "number"
        ELSE IF t.k \in {"arg", "argpath"}
        THEN IF parent \in {"px", "px_of", "px_grouped"}
             THEN ~px_has_column(toks, e, t.col, d)
             ELSE parent = "go" /\ t.a # "text"      \* a string where data goes
        ELSE IF t.k = "first_cols" THEN Len(d) < 2
        ELSE IF t.k = "hist_quantile" THEN parent # ""
        ELSE IF t.k \in {"marker_brace", "marker_dict"}
        THEN \/ parent \in {"px", "px_of", "px_grouped"}
             \/ parent = "go" /\ toks[e].a = "Figure"
        ELSE IF t.k = "fig_use" THEN ~fig_is_figure(toks, i)
        ELSE IF t.k = "px_of"
        THEN \/ t.col = <<"grouped_data">>
                  /\ last_statement(toks, i, {"grouped", "grouped_desc", "grouped_asc"}) = 0
             \/ t.col = <<"corr_matrix">> /\ last_statement(toks, i, {"corr"}) = 0
        ELSE FALSE

\* exec(code, exec_globals): "raise", or what exec_globals.get('fig') is
\* afterwards: "fig" (set by the code) or "None".
run_code(toks, d, strict) ==
    IF \/ compile_error(toks) # "None"
       \/ \E i \in 1..Len(toks) : raises_at(toks, i, d, strict)
    THEN "raise"
    ELSE IF last_statement(toks, Len(toks) + 1, {"fig_assign"}) # 0 THEN "fig"
    ELSE "None"

\* The dataframe after  df['<col>'] = df['<col>'] * 2 : every value of the
\* column doubles, and with them a numeric column's mean.
scaled(d, col) ==
    [n \in 1..Len(d) |->
        IF d[n].name = col /\ d[n].dtype = "number"
        THEN [d[n] EXCEPT !.mean = [n |-> 2 * @.n, d |-> @.d]]
        ELSE d[n]]

\* exec() runs the statements in order on the caller's dataframe (lines
\* 440-449: exec_globals holds df itself, no copy): the dataframe as the statements
\* from token i on leave it.  A statement that raises ends the run; what the
\* statements before it wrote stays.
RECURSIVE exec_df(_, _, _, _)
exec_df(toks, i, d, strict) ==
    IF i > Len(toks) THEN d
    ELSE IF raises_at(toks, i, d, strict) THEN d
    ELSE CHOOSE after \in
            { exec_df(toks, i + 1, written, strict) :
                written \in { IF toks[i].k = "scale" /\ depth_before(toks, i) = 0
                              THEN scaled(d, toks[i].col) ELSE d } } : TRUE

\* The substitute code of lines 423-429 and 432-437.
substitute_bar(cat, num) ==
    << T0("import_px"), T0("fig_assign"), Tok("px_grouped", "bar", cat, num),
       Arg("x", cat), Arg("y", num), Opaque("title"), Opaque("template"),
       T0("close"), T0("fig_use") >>
substitute_scatter ==
    << T0("import_px"), T0("fig_assign"),
       Tok("px_of", "scatter", <<"df.head(100)">>, <<>>), T0("first_cols"),
       Opaque("title"), Opaque("template"), T0("close"), T0("fig_use") >>

\* The figures the call can return.  chart: of is "code" (the figure the code
\* built), "substitute" (built by the substitute code) or "fallback" (the
\* scatter of line 457).  error_fig: the figure of lines 467-481.
chart(of) == [kind |-> "chart", of |-> of, annotation |-> FALSE,
              axes_visible |-> TRUE]
error_fig == [kind |-> "error", of |-> "handler", annotation |-> TRUE,
              axes_visible |-> FALSE]

\* The code lines 415-437 hand to exec(): the sanitized code s, or the
\* substitute code when the sanitizer returned None.
to_run(s, d) ==
    IF s # None THEN s.toks
    ELSE IF Len(cat_cols(d)) > 0 /\ Len(num_cols(d)) > 0
    THEN substitute_bar(cat_cols(d)[1], num_cols(d)[1])
    ELSE substitute_scatter

\* The caller's dataframe when execute_visualization_code returns.  Code
\* that does not compile runs no statement.
run_df(toks, d, strict) ==
    IF compile_error(toks) # "None" THEN d ELSE exec_df(toks, 1, d, strict)

\* A plausible slip: the try block ends after exec(), the fallback scatter of
\* line 457 is outside it.
execute_visualization_code_narrow_try(c, d, strict) ==
    LET result(s, out, after) ==
            IF out = "raise"
            THEN [fig |-> error_fig, raised |-> TRUE, substituted |-> s = None,
                  escapes |-> FALSE, df |-> after]
            ELSE IF out = "None" /\ Len(d) < 2
            THEN [fig |-> None, raised |-> TRUE, substituted |-> s = None,
                  escapes |-> TRUE, df |-> after]
            ELSE [fig |-> chart(IF out = "None" THEN "fallback"
                                ELSE IF s = None THEN "substitute" ELSE "code"),
                  raised |-> FALSE, substituted |-> s = None, escapes |-> FALSE,
                  df |-> after]
        run(s) == result(s, IF c = None THEN "raise"
                            ELSE run_code(to_run(s, d), d, strict),
                         IF c = None THEN d ELSE run_df(to_run(s, d), d, strict))
    IN  run(IF c = None THEN None ELSE sanitize_code(c, d))

\* A plausible slip: no substitute code; a candidate the sanitizer rejects is
\* an error like any other.
execute_visualization_code_no_substitute(c, d, strict) ==
    LET result(out, after) ==
            IF out = "raise" \/ (out = "None" /\ Len(d) < 2)
            THEN [fig |-> error_fig, raised |-> TRUE, substituted |-> FALSE,
                  escapes |-> FALSE, df |-> after]
            ELSE [fig |-> chart(IF out = "None" THEN "fallback" ELSE "code"),
                  raised |-> FALSE, substituted |-> FALSE, escapes |-> FALSE,
                  df |-> after]
        run(s) == result(IF s = None THEN "raise" ELSE run_code(s.toks, d, strict),
                         IF s = None THEN d ELSE run_df(s.toks, d, strict))
    IN  run(IF c = None THEN None ELSE sanitize_code(c, d))

\* What the call does: the figure it returns, whether an exception was raised
\* inside the try block, whether the substitute code ran, whether an
\* exception leaves the call, and the caller's dataframe when the call is
\* over.  c is the code (None: no string at all, on
\* which _sanitize_code raises).
execute_visualization_code(c, d, strict) ==
    LET result(s, out, after) ==
            \* line 457: df.columns[1] of a single-column dataframe raises
            IF out = "raise" \/ (out = "None" /\ Len(d) < 2)
            THEN [fig |-> error_fig, raised |-> TRUE, substituted |-> s = None,
                  escapes |-> FALSE, df |-> after]
            ELSE [fig |-> chart(IF out = "None" THEN "fallback"
                                ELSE IF s = None THEN "substitute" ELSE "code"),
                  raised |-> FALSE, substituted |-> s = None, escapes |-> FALSE,
                  df |-> after]
        run(s) == result(s, IF c = None THEN "raise"
                            ELSE run_code(to_run(s, d), d, strict),
                         IF c = None THEN d ELSE run_df(to_run(s, d), d, strict))
    IN  run(IF c = None THEN None ELSE sanitize_code(c, d))

(***************************************************************************)
(* AgentCoordinator.generate_visualization_code and its collaborators.     *)
(***************************************************************************)
\* A plausible slip: the caller's flag is not consulted.
tries_ollama_ignoring_flag(use, available) == available

\* Line 165: the LLM branch is entered.
tries_ollama(use, available) == use /\ available

\* A plausible slip: no try/except around the call of the collaborator.
query_ollama_uncaught(available, behaviour) ==
    IF ~available THEN [returns |-> None, raises |-> "None"]
    ELSE IF behaviour.kind = "raises" THEN [returns |-> None, raises |-> "Exception"]
    ELSE [returns |-> behaviour.text, raises |-> "None"]

\* What query_ollama returns (None, or the response text) and the exception
\* that leaves it.  behaviour: what self.ollama.generate does.
query_ollama(available, behaviour) ==
    IF ~available THEN [returns |-> None, raises |-> "None"]
    ELSE IF behaviour.kind = "raises" THEN [returns |-> None, raises |-> "None"]
    ELSE [returns |-> behaviour.text, raises |-> "None"]

\* Truth value of a str-or-None.
Truthy(s) == s # None /\ Len(s.toks) > 0

\* The response of test_dashboard.py (lines 263-269) and others like it.
Resp_test ==
    << T0("prose"), T0("fence_py"), T0("fig_assign"), Px("bar"), Arg("x", Age),
       Arg("y", Income), T0("close"), T0("fence_end"), T0("prose") >>
Resp_go ==
    << T0("fence_py"), T0("fig_assign"), Go("Figure"), Go("Bar"),
       ArgDf("x", Age), ArgDf("y", Income), T0("close"), T0("close"),
       T0("fence_end") >>
Resp_bogus ==
    << T0("fence_py"), T0("fig_assign"), Go("Figure"), Go("Bar"),
       ArgDf("x", bogus_col), T0("close"), T0("close"), T0("fence_end") >>
Resp_x_last ==
    << T0("fence"), T0("fig_assign"), Px("scatter"), Arg("y", Income),
       Arg("x", Age), T0("close"), T0("fence_end") >>
Resp_unclosed ==
    << T0("fence"), T0("fig_assign"), Go("Figure"), T0("fence_end") >>
Resp_inline_no_fig == << T0("prose"), T0("tick"), Px("bar"), T0("close"), T0("tick") >>
Resp_prose == << T0("prose") >>
Resp_marker ==
    << T0("fig_assign"), Go("Figure"), Go("Scatter"), T0("marker_brace"),
       T0("close"), T0("close") >>
Resp_layout ==
    << T0("fig_assign"), Go("Figure"), Go("Layout"), T0("close"), T0("close") >>
Resp_deep == << T0("fence_py"), T0("fig_assign"), T0("deep"), T0("fence_end") >>
Resp_fig_use == << T0("fig_use") >>
Resp_empty_fence == << T0("fence_py"), T0("fence_end") >>
Resp_scales ==
    << T0("fence_py"), Scale(Income), T0("fig_assign"), Px("scatter"),
       Arg("y", Income), Arg("x", Age), T0("close"), T0("fence_end") >>
Resp_typo ==
    << T0("fence_py"), T0("fig_assign"), Px("bar"), ArgDf("y", Incme),
       T0("close"), T0("fence_end") >>

\* What self.ollama.generate can do: raise, or return a response whose text is
\* None, empty, or one of the texts above.
LLMBehaviours ==
    { [kind |-> "raises", text |-> None], [kind |-> "returns", text |-> None] }
    \cup { [kind |-> "returns", text |-> Code(r)] :
              r \in { <<>>, Resp_test, Resp_go, Resp_bogus, Resp_x_last,
                      Resp_unclosed, Resp_inline_no_fig, Resp_prose, Resp_marker,
                      Resp_layout, Resp_deep, Resp_fig_use, Resp_empty_fence,
                      Resp_typo, Resp_scales } }

(***************************************************************************)
(* Specification Spec: one call of generate_visualization_code followed by *)
(* execute_visualization_code, as app code and run_integration_test do.    *)
(***************************************************************************)
Init ==
    /\ prompt \in TestPrompts
    /\ df \in Schemas
    /\ use_ollama \in BOOLEAN
    /\ ollama_available \in BOOLEAN
    /\ llm \in LLMBehaviours
    /\ pc = "start"
    /\ response = None
    /\ code = None
    /\ method = "None"
    /\ fig = None
    /\ queries = 0
    /\ steps = <<>>
    /\ parsed = NoParse
    /\ sanitized = None
    /\ resanitized = None
    /\ executed = None
    /\ escaped = FALSE
    /\ NoStore
    /\ NoWorkflow

\* Line 165
Begin ==
    /\ pc = "start"
    /\ pc' = IF tries_ollama(use_ollama, ollama_available) THEN "query" ELSE "rule"
    /\ UNCHANGED << storeVars, workflowVars >>
    /\ UNCHANGED << prompt, df, use_ollama, ollama_available, llm, response, code,
                    method, fig, queries, steps, parsed, sanitized, resanitized,
                    executed, escaped >>

\* Lines 167-170
QueryOllama ==
    /\ pc = "query"
    /\ LET r == query_ollama(ollama_available, llm)
       IN  /\ response' = r.returns
           /\ escaped' = (r.raises # "None")
           /\ pc' = IF r.raises # "None" THEN "escaped"
                    ELSE IF Truthy(r.returns) THEN "extract" ELSE "rule"
    /\ queries' = queries + 1
    /\ steps' = Append(steps, "query")
    /\ UNCHANGED << storeVars, workflowVars >>
    /\ UNCHANGED << prompt, df, use_ollama, ollama_available, llm, code, method,
                    fig, parsed, sanitized, resanitized, executed >>

\* Lines 171-172
ExtractCode ==
    /\ pc = "extract"
    /\ code' = extract_code_from_response(response)
    /\ pc' = IF Truthy(code') /\ ContainsFig(code'.toks) THEN "validate" ELSE "rule"
    /\ steps' = Append(steps, "extract")
    /\ UNCHANGED << storeVars, workflowVars >>
    /\ UNCHANGED << prompt, df, use_ollama, ollama_available, llm, response,
                    method, fig, queries, parsed, sanitized, resanitized, executed,
                    escaped >>

\* Lines 174-177
ValidateCode ==
    /\ pc = "validate"
    /\ LET v == validate_code_syntax(code)
       IN  /\ escaped' = (v.raises # "None")
           /\ pc' = IF v.raises # "None" THEN "escaped"
                    ELSE IF v.returns THEN "generated" ELSE "rule"
           /\ method' = IF v.raises = "None" /\ v.returns THEN "ollama" ELSE method
    /\ steps' = Append(steps, "validate")
    /\ UNCHANGED << storeVars, workflowVars >>
    /\ UNCHANGED << prompt, df, use_ollama, ollama_available, llm, response, code,
                    fig, queries, parsed, sanitized, resanitized, executed >>

\* Lines 180-184
RuleBased ==
    /\ pc = "rule"
    /\ parsed' = parse_visualization_request(prompt, df)
    /\ code' = create_visualization_from_prompt(prompt, df).code
    /\ method' = "rule-based"
    /\ pc' = "generated"
    /\ steps' = Append(steps, "rule")
    /\ UNCHANGED << storeVars, workflowVars >>
    /\ UNCHANGED << prompt, df, use_ollama, ollama_available, llm, response, fig,
                    queries, sanitized, resanitized, executed, escaped >>

\* The caller passes the code returned to execute_visualization_code.
Execute ==
    /\ pc = "generated"
    /\ \E strict \in BOOLEAN :
          /\ executed' = execute_visualization_code(code, df, strict)
          /\ df' = executed'.df
    /\ fig' = executed'.fig
    /\ escaped' = executed'.escapes
    /\ pc' = "done"
    /\ steps' = Append(steps, "execute")
    /\ UNCHANGED << storeVars, workflowVars >>
    /\ UNCHANGED << prompt, use_ollama, ollama_available, llm, response, code,
                    method, queries, parsed, sanitized, resanitized >>

Next ==
    \/ Begin
    \/ QueryOllama
    \/ ExtractCode
    \/ ValidateCode
    \/ RuleBased
    \/ Execute

Spec == Init /\ [][Next]_vars

(***************************************************************************)
(* Specification SpecSanitize: _sanitize_code (once, and again on its own  *)
(* result) and execute_visualization_code on every code string within the  *)
(* bounds.                                                                 *)
(***************************************************************************)
\* The tokens the code strings are made of.
CodeTokens ==
    { Go("Scatter"), Px("bar"), T0("close"), T0("fig_assign"),
      Arg("x", Age), Arg("x", bogus_col), ArgDf("y", Incme), DfRef(bogus_col),
      GroupBy(bogus_col), T0("boom") }

CodeStrings ==
    { Code(toks) : toks \in UNION { [1..n -> CodeTokens] : n \in 0..MaxCodeLen } }

\* Dataframes: with a categorical and a numeric column, with one column only,
\* with numeric columns only.
Frames ==
    LET c(name) == CHOOSE x \in ColumnPool : x.name = name
    IN  { <<c(Age), c(Income), c(education)>>, <<c(education)>>,
          <<c(Age), c(Income)>> }

InitSanitize ==
    /\ code \in CodeStrings
    /\ df \in Frames
    /\ prompt = <<>>
    /\ use_ollama = FALSE
    /\ ollama_available = FALSE
    /\ llm = None
    /\ pc = "code"
    /\ response = None
    /\ method = "None"
    /\ fig = None
    /\ queries = 0
    /\ steps = <<>>
    /\ parsed = NoParse
    /\ sanitized = None
    /\ resanitized = None
    /\ executed = None
    /\ escaped = FALSE
    /\ NoStore
    /\ NoWorkflow

Sanitize ==
    /\ pc = "code"
    /\ sanitized' = sanitize_code(code, df)
    /\ pc' = "sanitized"
    /\ UNCHANGED << storeVars, workflowVars >>
    /\ UNCHANGED << prompt, df, use_ollama, ollama_available, llm, response, code,
                    method, fig, queries, steps, parsed, resanitized, executed,
                    escaped >>

Resanitize ==
    /\ pc = "sanitized"
    /\ sanitized # None
    /\ resanitized' = sanitize_code(sanitized, df)
    /\ pc' = "resanitized"
    /\ UNCHANGED << storeVars, workflowVars >>
    /\ UNCHANGED << prompt, df, use_ollama, ollama_available, llm, response, code,
                    method, fig, queries, steps, parsed, sanitized, executed,
                    escaped >>

ExecuteCode ==
    /\ pc = "code"
    /\ \E strict \in BOOLEAN :
          /\ executed' = execute_visualization_code(code, df, strict)
          /\ df' = executed'.df
    /\ fig' = executed'.fig
    /\ escaped' = executed'.escapes
    /\ pc' = "done"
    /\ UNCHANGED << storeVars, workflowVars >>
    /\ UNCHANGED << prompt, use_ollama, ollama_available, llm, response, code,
                    method, queries, steps, parsed, sanitized, resanitized >>

NextSanitize ==
    \/ Sanitize
    \/ Resanitize
    \/ ExecuteCode

SpecSanitize == InitSanitize /\ [][NextSanitize]_vars

(***************************************************************************)
(* Specification SpecParse: the intent parser on every request text and    *)
(* dataframe within the bounds.                                            *)
(***************************************************************************)
InitParse ==
    /\ prompt \in Requests
    /\ df \in Schemas
    /\ use_ollama = FALSE
    /\ ollama_available = FALSE
    /\ llm = None
    /\ pc = "start"
    /\ response = None
    /\ code = None
    /\ method = "None"
    /\ fig = None
    /\ queries = 0
    /\ steps = <<>>
    /\ parsed = NoParse
    /\ sanitized = None
    /\ resanitized = None
    /\ executed = None
    /\ escaped = FALSE
    /\ NoStore
    /\ NoWorkflow

ParseRequest ==
    /\ pc = "start"
    /\ parsed' = parse_visualization_request(prompt, df)
    /\ pc' = "parsed"
    /\ UNCHANGED << storeVars, workflowVars >>
    /\ UNCHANGED << prompt, df, use_ollama, ollama_available, llm, response, code,
                    method, fig, queries, steps, sanitized, resanitized, executed,
                    escaped >>

\* create_visualization_from_prompt on the same request and dataframe.
Synthesize ==
    /\ pc = "parsed"
    /\ code' = create_visualization_from_prompt(prompt, df).code
    /\ pc' = "synthesized"
    /\ UNCHANGED << storeVars, workflowVars >>
    /\ UNCHANGED << prompt, df, use_ollama, ollama_available, llm, response,
                    method, fig, queries, steps, parsed, sanitized, resanitized,
                    executed, escaped >>

NextParse ==
    \/ ParseRequest
    \/ Synthesize

SpecParse == InitParse /\ [][NextParse]_vars

(***************************************************************************)
(* Specification SpecExtract: extract_code_from_response on None and on    *)
(* every response text of up to MaxRespLen tokens: fences, backticks,      *)
(* prose and code.                                                         *)
(***************************************************************************)
ResponseTokens ==
    { T0("fence_py"), T0("fence"), T0("fence_end"), T0("tick"), T0("word"),
      T0("prose"), T0("fig_assign") }

Responses ==
    {None} \cup { Code(s) : s \in UNION { [1..n -> ResponseTokens] : n \in 0..MaxRespLen } }

InitExtract ==
    /\ response \in Responses
    /\ prompt = <<>>
    /\ df = <<>>
    /\ use_ollama = FALSE
    /\ ollama_available = FALSE
    /\ llm = None
    /\ pc = "response"
    /\ code = None
    /\ method = "None"
    /\ fig = None
    /\ queries = 0
    /\ steps = <<>>
    /\ parsed = NoParse
    /\ sanitized = None
    /\ resanitized = None
    /\ executed = None
    /\ escaped = FALSE
    /\ NoStore
    /\ NoWorkflow

Extract ==
    /\ pc = "response"
    /\ code' = extract_code_from_response(response)
    /\ pc' = "extracted"
    /\ UNCHANGED << storeVars, workflowVars >>
    /\ UNCHANGED << prompt, df, use_ollama, ollama_available, llm, response,
                    method, fig, queries, steps, parsed, sanitized, resanitized,
                    executed, escaped >>

NextExtract == Extract

SpecExtract == InitExtract /\ [][NextExtract]_vars

(***************************************************************************)
(* SQLiteManager (src/database/sqlite_manager.py): the datasets table, one *)
(* data table per dataset, and the calls save_dataset, get_dataset,        *)
(* list_datasets and delete_dataset.  A dataframe is its columns and its   *)
(* number of rows.                                                         *)
(***************************************************************************)
\* str.replace(old, new) for one-character old and new
replace_char(s, old, new) == [i \in 1..Len(s) |-> IF s[i] = old THEN new ELSE s[i]]

\* f"data_{name.lower().replace(' ', '_').replace('-', '_')}"
table_name_of(name) ==
    <<"d","a","t","a","_">> \o replace_char(replace_char(lower(name), " ", "_"), "-", "_")

\* SQL reads the unquoted text  FROM {table_name}  as the name of that table:
\* it holds word characters only (a dot would split it into database.table).
reads_as_table(table_name) == \A i \in 1..Len(table_name) : IsWordChar(table_name[i])

\* df.to_sql(table_name, conn, if_exists='replace', index=False): the table
\* is dropped when it exists and written anew, and the write is committed.
to_sql(tabs, table_name, frame) ==
    { t \in tabs : t.table_name # table_name }
        \cup { [table_name |-> table_name, data |-> frame] }

\* The store after save_dataset(df, name, ...), what the call returns and the
\* exception that leaves it ("None": none).  table_name is UNIQUE in datasets:
\* the INSERT fails when a row holds it already, after to_sql has committed.
save_dataset(rows, tabs, last_id, frame, name) ==
    LET table_name == table_name_of(name)
        written == to_sql(tabs, table_name, frame)
    IN  IF \E r \in rows : r.table_name = table_name
        THEN [datasets |-> rows, tables |-> written, seq |-> last_id,
              returns |-> None, raises |-> "IntegrityError"]
        ELSE [datasets |-> rows \cup { [id |-> last_id + 1, name |-> name,
                                        table_name |-> table_name,
                                        row_count |-> frame.row_count,
                                        column_count |-> Len(frame.columns)] },
              tables |-> written, seq |-> last_id + 1,
              returns |-> last_id + 1, raises |-> "None"]

\* get_dataset(dataset_id): None without a row for the id; else the data table
\* the row names, read by  SELECT * FROM {table_name}.
get_dataset(rows, tabs, dataset_id) ==
    IF ~\E r \in rows : r.id = dataset_id
    THEN [returns |-> None, raises |-> "None"]
    ELSE LET result == CHOOSE r \in rows : r.id = dataset_id
             found == { t \in tabs : t.table_name = result.table_name }
         IN  IF ~reads_as_table(result.table_name) \/ found = {}
             THEN [returns |-> None, raises |-> "DatabaseError"]
             ELSE [returns |-> (CHOOSE t \in found : TRUE).data, raises |-> "None"]

\* list_datasets(): one dictionary per row of datasets.
list_datasets(rows) == rows

\* delete_dataset(dataset_id): False without a row for the id; else the data
\* table is dropped (DROP TABLE IF EXISTS leaves a table whose name it cannot
\* read) and the row deleted.
delete_dataset(rows, tabs, dataset_id) ==
    IF ~\E r \in rows : r.id = dataset_id
    THEN [datasets |-> rows, tables |-> tabs, returns |-> FALSE]
    ELSE LET result == CHOOSE r \in rows : r.id = dataset_id
         IN  [datasets |-> rows \ {result},
              tables |-> IF reads_as_table(result.table_name)
                         THEN { t \in tabs : t.table_name # result.table_name }
                         ELSE tabs,
              returns |-> TRUE]

(***************************************************************************)
(* Specification SpecStore: any sequence of calls on one SQLiteManager     *)
(* that starts with an empty database.                                     *)
(***************************************************************************)
DatasetNames ==
    { <<"s","a","l","e","s">>, <<"S","a","l","e","s">>, <<"a"," ","b">>,
      <<"a","-","b">>, <<"q","1",".","c","s","v">> }

StoredFrames ==
    { [columns |-> <<Age, Income>>, row_count |-> 2],
      [columns |-> <<education>>, row_count |-> 1] }

DatasetIds == 1..(MaxSaves + 1)

InitStore ==
    /\ datasets = {}
    /\ tables = {}
    /\ seq = 0
    /\ saved = {}
    /\ returned = None
    /\ prompt = <<>>
    /\ df = <<>>
    /\ use_ollama = FALSE
    /\ ollama_available = FALSE
    /\ llm = None
    /\ pc = "store"
    /\ response = None
    /\ code = None
    /\ method = "None"
    /\ fig = None
    /\ queries = 0
    /\ steps = <<>>
    /\ parsed = NoParse
    /\ sanitized = None
    /\ resanitized = None
    /\ executed = None
    /\ escaped = FALSE
    /\ NoWorkflow

SaveDataset ==
    /\ seq < MaxSaves
    /\ \E name \in DatasetNames, frame \in StoredFrames :
          LET r == save_dataset(datasets, tables, seq, frame, name)
          IN  /\ datasets' = r.datasets
              /\ tables' = r.tables
              /\ seq' = r.seq
              /\ saved' = IF r.raises = "None"
                          THEN saved \cup { [id |-> r.returns, data |-> frame] }
                          ELSE saved
              /\ returned' = [call |-> "save_dataset", arg |-> name,
                              returns |-> r.returns, raises |-> r.raises]
    /\ UNCHANGED workflowVars
    /\ UNCHANGED << prompt, df, use_ollama, ollama_available, llm, pc, response,
                    code, method, fig, queries, steps, parsed, sanitized,
                    resanitized, executed, escaped >>

GetDataset ==
    /\ \E dataset_id \in DatasetIds :
          LET r == get_dataset(datasets, tables, dataset_id)
          IN  returned' = [call |-> "get_dataset", arg |-> dataset_id,
                           returns |-> r.returns, raises |-> r.raises]
    /\ UNCHANGED << datasets, tables, seq, saved >>
    /\ UNCHANGED workflowVars
    /\ UNCHANGED << prompt, df, use_ollama, ollama_available, llm, pc, response,
                    code, method, fig, queries, steps, parsed, sanitized,
                    resanitized, executed, escaped >>

ListDatasets ==
    /\ returned' = [call |-> "list_datasets", arg |-> None,
                    returns |-> list_datasets(datasets), raises |-> "None"]
    /\ UNCHANGED << datasets, tables, seq, saved >>
    /\ UNCHANGED workflowVars
    /\ UNCHANGED << prompt, df, use_ollama, ollama_available, llm, pc, response,
                    code, method, fig, queries, steps, parsed, sanitized,
                    resanitized, executed, escaped >>

DeleteDataset ==
    /\ \E dataset_id \in DatasetIds :
          LET r == delete_dataset(datasets, tables, dataset_id)
          IN  /\ datasets' = r.datasets
              /\ tables' = r.tables
              /\ saved' = IF r.returns THEN { s \in saved : s.id # dataset_id }
                          ELSE saved
              /\ returned' = [call |-> "delete_dataset", arg |-> dataset_id,
                              returns |-> r.returns, raises |-> "None"]
    /\ UNCHANGED seq
    /\ UNCHANGED workflowVars
    /\ UNCHANGED << prompt, df, use_ollama, ollama_available, llm, pc, response,
                    code, method, fig, queries, steps, parsed, sanitized,
                    resanitized, executed, escaped >>

NextStore ==
    \/ SaveDataset
    \/ GetDataset
    \/ ListDatasets
    \/ DeleteDataset

SpecStore == InitStore /\ [][NextStore]_vars

(***************************************************************************)
(* OrchestratorAgent.execute (src/agents/orchestrator_agent.py): cleaning, *)
(* intent, analysis and visualization in one try block.  Each collaborating*)
(* agent returns its dictionary, raises, or returns a dictionary without   *)
(* the key the orchestrator reads ("incomplete": a KeyError in the block). *)
(***************************************************************************)
\* Lines 54-57
new_workflow_results ==
    [status |-> "in_progress", steps |-> <<>>, keys |-> {"status", "steps"},
     error |-> "", success |-> FALSE]

\* workflow_results["steps"].append({"step": ..., "status": ...})
append_step(w, step, status) ==
    [w EXCEPT !.steps = Append(@, [step |-> step, status |-> status])]

\* A plausible slip: the except branch records the error and keeps the status.
failed_keeps_status(w, e) ==
    [w EXCEPT !.error = e, !.success = FALSE, !.keys = @ \cup {"error", "success"}]

\* Lines 111-117: the except branch
failed(w, e) ==
    [w EXCEPT !.status = "failed", !.error = e, !.success = FALSE,
              !.keys = @ \cup {"error", "success"}]

\* Lines 101-107
completed(w) ==
    [w EXCEPT !.status = "completed", !.success = TRUE,
              !.keys = @ \cup {"cleaned_data", "analysis", "visualizations", "success"}]

\* The exception a call of a collaborating agent ends the try block with
\* ("None": the block goes on).
raised_by(outcome) ==
    IF outcome = "raises" THEN "Exception"
    ELSE IF outcome = "incomplete" THEN "KeyError"
    ELSE "None"

AgentOutcomes == {"returns", "raises", "incomplete"}

(***************************************************************************)
(* Specification SpecOrchestrate: one call of OrchestratorAgent.execute.   *)
(***************************************************************************)
InitOrchestrate ==
    /\ df \in Schemas
    /\ prompt = P_compare
    /\ skip_cleaning \in BOOLEAN
    /\ agents \in [cleaning : AgentOutcomes, intent : {"returns", "raises"},
                     analysis : AgentOutcomes, visualization : AgentOutcomes]
    /\ workflow_results = None
    /\ pc = "start"
    /\ use_ollama = FALSE
    /\ ollama_available = FALSE
    /\ llm = None
    /\ response = None
    /\ code = None
    /\ method = "None"
    /\ fig = None
    /\ queries = 0
    /\ steps = <<>>
    /\ parsed = NoParse
    /\ sanitized = None
    /\ resanitized = None
    /\ executed = None
    /\ escaped = FALSE
    /\ NoStore

\* Lines 52-57
StartWorkflow ==
    /\ pc = "start"
    /\ workflow_results' = new_workflow_results
    /\ pc' = "cleaning"
    /\ UNCHANGED << storeVars, skip_cleaning, agents >>
    /\ UNCHANGED << prompt, df, use_ollama, ollama_available, llm, response, code,
                    method, fig, queries, steps, parsed, sanitized, resanitized,
                    executed, escaped >>

\* Lines 61-75
Cleaning ==
    /\ pc = "cleaning"
    /\ IF skip_cleaning
       THEN /\ workflow_results' = append_step(workflow_results, "cleaning", "skipped")
            /\ pc' = "intent"
       ELSE IF raised_by(agents.cleaning) = "None"
       THEN /\ workflow_results' = append_step(workflow_results, "cleaning", "completed")
            /\ pc' = "intent"
       ELSE /\ workflow_results' = failed(workflow_results, raised_by(agents.cleaning))
            /\ pc' = "return"
    /\ UNCHANGED << storeVars, skip_cleaning, agents >>
    /\ UNCHANGED << prompt, df, use_ollama, ollama_available, llm, response, code,
                    method, fig, queries, steps, parsed, sanitized, resanitized,
                    executed, escaped >>

\* Lines 79-80: _classify_intent catches what its chain raises (lines 123-141)
ClassifyIntent ==
    /\ pc = "intent"
    /\ workflow_results' = [workflow_results EXCEPT !.keys = @ \cup {"intent"}]
    /\ pc' = "analysis"
    /\ UNCHANGED << storeVars, skip_cleaning, agents >>
    /\ UNCHANGED << prompt, df, use_ollama, ollama_available, llm, response, code,
                    method, fig, queries, steps, parsed, sanitized, resanitized,
                    executed, escaped >>

\* Lines 84-89
Analysis ==
    /\ pc = "analysis"
    /\ IF raised_by(agents.analysis) = "None"
       THEN /\ workflow_results' = append_step(workflow_results, "analysis", "completed")
            /\ pc' = "visualization"
       ELSE /\ workflow_results' = failed(workflow_results, raised_by(agents.analysis))
            /\ pc' = "return"
    /\ UNCHANGED << storeVars, skip_cleaning, agents >>
    /\ UNCHANGED << prompt, df, use_ollama, ollama_available, llm, response, code,
                    method, fig, queries, steps, parsed, sanitized, resanitized,
                    executed, escaped >>

\* Lines 93-107
Visualization ==
    /\ pc = "visualization"
    /\ IF raised_by(agents.visualization) = "None"
       THEN workflow_results' =
                completed(append_step(workflow_results, "visualization", "completed"))
       ELSE workflow_results' =
                failed(workflow_results, raised_by(agents.visualization))
    /\ pc' = "return"
    /\ UNCHANGED << storeVars, skip_cleaning, agents >>
    /\ UNCHANGED << prompt, df, use_ollama, ollama_available, llm, response, code,
                    method, fig, queries, steps, parsed, sanitized, resanitized,
                    executed, escaped >>

\* Line 119
ReturnWorkflow ==
    /\ pc = "return"
    /\ pc' = "returned"
    /\ UNCHANGED << storeVars, workflowVars >>
    /\ UNCHANGED << prompt, df, use_ollama, ollama_available, llm, response, code,
                    method, fig, queries, steps, parsed, sanitized, resanitized,
                    executed, escaped >>

NextOrchestrate ==
    \/ StartWorkflow
    \/ Cleaning
    \/ ClassifyIntent
    \/ Analysis
    \/ Visualization
    \/ ReturnWorkflow

SpecOrchestrate == InitOrchestrate /\ [][NextOrchestrate]_vars

(***************************************************************************)
(* Properties.                                                             *)
(***************************************************************************)
\* The call of generate_visualization_code has returned.
Returned == pc \in {"generated", "done"}

\* C1: for every dataframe with a non-empty schema, every request text and
\* every behaviour of the LLM (enabled or not, available or not, returning
\* text or null, raising), generate followed by execute ends with a non-null
\* figure and a method tag in {ollama, rule-based}, and no exception leaves
\* either call.
C1_PipelineNeverRaises ==
    /\ ~escaped
    /\ pc = "done" => fig # None /\ method \in {"ollama", "rule-based"}

\* C2: with use_ollama = FALSE the LLM collaborator is never queried and the
\* method returned is 'rule-based', whatever the request, the dataframe and
\* the availability of the LLM.
C2_DisabledIsRuleBased ==
    ~use_ollama =>
        /\ queries = 0
        /\ pc \notin {"query", "extract", "validate", "escaped"}
        /\ Returned => method = "rule-based"

C2_Witness ==
    /\ pc = "done" /\ ~use_ollama /\ ollama_available
    /\ llm.kind = "returns" /\ Truthy(llm.text)
    /\ method = "rule-based" /\ queries = 0

\* C3: method 'ollama' is returned only if, in this order, use_ollama was
\* true, the collaborator was available, the call returned non-empty text,
\* the extracted code is non-null and contains 'fig', and the validator
\* accepted it on syntax, denylist and column references against the schema;
\* the code returned is that validated code.
C3_LlmOnlyIfValidated ==
    method = "ollama" =>
        /\ use_ollama /\ ollama_available
        /\ Truthy(response)
        /\ SubSeq(steps, 1, 3) = <<"query", "extract", "validate">>
        /\ code = extract_code_from_response(response)
        /\ Truthy(code) /\ ContainsFig(code.toks)
        /\ validate_code_syntax(code).returns
        /\ sanitize_code(code, df) # None

\* A step of the LLM branch fails in one of the ways C4 lists: collaborator
\* unavailable, call raising or returning null or empty text, extraction giving
\* null or code without 'fig', validation rejecting the code.
LlmBranchFails ==
    \/ ~ollama_available
    \/ llm.kind = "raises"
    \/ ~Truthy(llm.text)
    \/ LET c == extract_code_from_response(llm.text)
       IN  \/ ~Truthy(c)
           \/ ~ContainsFig(c.toks)
           \/ validate_code_syntax(c).raises = "None" /\ ~validate_code_syntax(c).returns

UnknownColumn(col, d) ==
    ~InColumns(col, d) /\ get_close_matches(col, columns(d)) = <<>>

\* The code references such a column as df['..'] or groupby('..') ...
SubscriptUnknown(toks, d) ==
    \E i \in 1..Len(toks) :
        /\ HasDfSubscript(toks[i]) \/ HasGroupby(toks[i])
        /\ UnknownColumn(toks[i].col, d)
\* ... or as a string argument of a plotly-express call.
StringArgUnknown(toks, d) ==
    \E i \in 1..Len(toks) :
        /\ toks[i].k = "arg"
        /\ enclosing(toks, i - 1, 0) # 0
        /\ toks[enclosing(toks, i - 1, 0)].k = "px"
        /\ UnknownColumn(toks[i].col, d)
ReferencesUnknown(toks, d) == SubscriptUnknown(toks, d) \/ StringArgUnknown(toks, d)

\* The dataframe supports the substitute code: a categorical and a numeric
\* column, or two columns.
CanSubstitute(d) ==
    (Len(cat_cols(d)) > 0 /\ Len(num_cols(d)) > 0) \/ Len(d) >= 2

\* C6 as stated: executing code that references a column absent from the
\* dataframe and without fuzzy match gives the error placeholder, however the
\* code references the column.
C6_UnknownColumnGivesPlaceholder ==
    pc = "done" /\ ReferencesUnknown(code.toks, df) => fig = error_fig

\* C6, amended: executing such code never raises; when the sanitizer rejects
\* the code (a df['..'] or groupby('..') reference, written so or made by the
\* go.* rewriting) the result is the chart of the substitute code, or the
\* error placeholder when the dataframe does not support the substitute; when
\* the sanitizer lets the code through (the reference is a string argument
\* only) the result is the error placeholder.
C6_UnknownColumnSubstituteOrPlaceholder ==
    pc = "done" /\ ReferencesUnknown(code.toks, df) =>
        /\ ~escaped
        /\ fig = IF sanitize_code(code, df) # None THEN error_fig
                 ELSE IF CanSubstitute(df) THEN chart("substitute")
                 ELSE error_fig
        /\ SubscriptUnknown(code.toks, df) => sanitize_code(code, df) = None

C6_Witness ==
    /\ pc = "done" /\ SubscriptUnknown(code.toks, df)
    /\ fig = chart("substitute")

C8_SanitizeIdempotent ==
    pc = "resanitized" => resanitized = sanitized

\* The kind detection C9 describes: the first entry of the table, in its
\* order, one of whose keywords occurs in the lower-cased request.
FirstKind(p, kind) ==
    \E n \in 1..Len(chart_keywords) :
        /\ chart_keywords[n].chart_type = kind
        /\ \E k \in 1..Len(chart_keywords[n].keywords) :
              Contains(chart_keywords[n].keywords[k], lower(p))
        /\ \A m \in 1..(n - 1) :
              \A k \in 1..Len(chart_keywords[m].keywords) :
                  ~Contains(chart_keywords[m].keywords[k], lower(p))
NoKind(p) ==
    \A n \in 1..Len(chart_keywords) :
        \A k \in 1..Len(chart_keywords[n].keywords) :
            ~Contains(chart_keywords[n].keywords[k], lower(p))

\* C9: the detected kind is the first kind in table order with a keyword in
\* the lower-cased request, 'bar' when there is none, always a kind of the
\* table; and the five requests of the tests give kpi, bar, scatter, heatmap,
\* treemap.
C9_FirstKindInTableOrder ==
    pc = "parsed" =>
        /\ FirstKind(prompt, parsed.chart_type)
              \/ (NoKind(prompt) /\ parsed.chart_type = "bar")
        /\ \E n \in 1..Len(chart_keywords) :
              chart_keywords[n].chart_type = parsed.chart_type
        /\ prompt = P_kpi => parsed.chart_type = "kpi"
        /\ prompt = P_bar => parsed.chart_type = "bar"
        /\ prompt = P_scatter => parsed.chart_type = "scatter"
        /\ prompt = P_heatmap => parsed.chart_type = "heatmap"
        /\ prompt = P_treemap => parsed.chart_type = "treemap"

\* A request with keywords of two kinds, the later of which is not returned.
C9_Witness ==
    /\ pc = "parsed"
    /\ \E n, m \in 1..Len(chart_keywords) :
          /\ n < m
          /\ AnyIn(chart_keywords[n].keywords, lower(prompt))
          /\ AnyIn(chart_keywords[m].keywords, lower(prompt))
          /\ parsed.chart_type = chart_keywords[n].chart_type

\* C10: the columns extracted are exactly the schema columns whose name
\* occurs, case-insensitively, in the request, in schema order and without
\* duplicates; a name that is no schema column is never returned.
C10_ColumnsInSchemaOrder ==
    pc = "parsed" =>
        /\ parsed.columns =
              SelectSeq(columns(df), LAMBDA c : Contains(lower(c), lower(prompt)))
        /\ \A i \in 1..Len(parsed.columns) : InColumns(parsed.columns[i], df)
        /\ \A i, j \in 1..Len(parsed.columns) :
              parsed.columns[i] = parsed.columns[j] => i = j

\* The request of the test names Income before Age and also MntTotal; the
\* schema lists Age before Income and has no MntTotal.
C10_Witness ==
    /\ pc = "parsed"
    /\ prompt = P_columns
    /\ columns(df) = <<Age, Income>>
    /\ parsed.columns = <<Age, Income>>


\* C11: for a dataframe with a categorical column G (education) and a numeric
\* column V (Income) and the comparison request that names both, generate
\* with use_ollama = FALSE returns 'rule-based' and executing the code gives
\* the bar chart of the code that groups by G and takes the mean of V per
\* group (one bar per value of G).
C11_ComparisonGivesGroupedBar ==
    /\ pc = "done" /\ ~use_ollama /\ prompt = P_compare
    /\ InColumns(education, df) /\ InColumns(Income, df)
    => /\ method = "rule-based"
       /\ fig = chart("code")
       /\ \E i \in 1..Len(code.toks) :
             /\ IsGrouped(code.toks[i])
             /\ code.toks[i].a = "mean"
             /\ code.toks[i].col = education
             /\ code.toks[i].col2 = Income


\* C12: extract_code_from_response tries the patterns in the fixed order
\* (1) fenced block tagged python, (2) untagged fenced block, (3) inline span
\* between single backticks, and returns the first match of the first pattern
\* in that order that matches anywhere: a lower-priority pattern decides only
\* when no higher-priority pattern matches anywhere in the response.
C12_PatternsInPriorityOrder ==
    pc = "extracted" /\ Truthy(response)
    => \A n \in 1..3 :
          /\ pattern_matches(response.toks, n)
          /\ \A m \in 1..(n - 1) : ~pattern_matches(response.toks, m)
          => code = Code(first_match(response.toks, n))

\* An untagged block comes first in the text and a python block after it: the
\* python block is what is returned.
C12_Witness ==
    /\ pc = "extracted"
    /\ response = Code(<< T0("fence"), T0("fence_py"), T0("fig_assign"), T0("fence_end") >>)
    /\ pattern_matches(response.toks, 2)
    /\ code = Code(<< T0("fig_assign") >>)

\* C13: extract_code_from_response returns None only when the response is
\* None or empty; every non-empty response gives a string.
C13_NoneOnlyForEmpty ==
    pc = "extracted" => (code = None <=> ~Truthy(response))

\* A non-empty response with no fence, no backtick and no code line: the text
\* itself comes back.
C13_Witness ==
    /\ pc = "extracted"
    /\ response = Code(<< T0("prose"), T0("word") >>)
    /\ code # None


\* The column names a piece of generated code holds: as a string argument, a
\* subscript of df, a groupby key or an entry of the correlation list.
NamesColumn(t) ==
    t.k \in {"arg", "argdf", "argpath", "dfref", "groupby", "guarded",
             "grouped", "grouped_desc", "grouped_asc"}
PlacedColumns(toks) ==
    { toks[i].col : i \in { j \in 1..Len(toks) : NamesColumn(toks[j]) } }
    \cup { toks[i].col2 : i \in { j \in 1..Len(toks) :
                                     IsGrouped(toks[j]) \/ toks[j].k = "guarded" } }
    \cup UNION { { toks[i].col[n] : n \in 1..Len(toks[i].col) } :
                 i \in { j \in 1..Len(toks) : toks[j].k = "corr" } }

\* C14: every column name the rule-based synthesizer places in the code it
\* generates, in every branch (kpi, bar, scatter, heatmap, treemap and the
\* default branch), is a column of the dataframe, for every request and every
\* dataframe with at least one column.
C14_GeneratedColumnsInSchema ==
    pc = "synthesized" /\ Len(df) > 0
    => \A col \in PlacedColumns(code.toks) : InColumns(col, df)


\* C15: when the code the LLM produced references a column that is absent
\* from the dataframe and has no close match, the LLM path is abandoned and
\* the result comes from the rule-based path with the tag 'rule-based'; a
\* result tagged as the LLM's is never a chart built from the substitute code.
C15_SchemaMismatchFallsBack ==
    pc \in {"generated", "done"} /\ method = "ollama"
    => /\ ~ReferencesUnknown(code.toks, df)
       /\ pc = "done" => ~executed.substituted


\* C16: after save_dataset returned id d > 0, get_dataset(d) returns the
\* table with the saved columns and row count for as long as d is not deleted,
\* whatever other saves happen in between; list_datasets has exactly one entry
\* per successful save not yet deleted; delete_dataset(d) on an existing d
\* returns True and get_dataset(d) returns None from then on.
C16_StoreKeepsDatasets ==
    /\ \A s \in saved : s.id > 0
    /\ returned # None /\ returned.call = "get_dataset" =>
          IF \E s \in saved : s.id = returned.arg
          THEN /\ returned.raises = "None"
               /\ \E s \in saved : s.id = returned.arg /\ s.data = returned.returns
          ELSE returned.raises = "None" /\ returned.returns = None
    /\ returned # None /\ returned.call = "list_datasets" =>
          /\ { r.id : r \in returned.returns } = { s.id : s \in saved }
          /\ Cardinality(returned.returns) = Cardinality(saved)
    /\ returned # None /\ returned.call = "delete_dataset" /\ returned.returns =>
          get_dataset(datasets, tables, returned.arg).returns = None


\* The names of the steps recorded, in order.
StepNames(w) == [i \in 1..Len(w.steps) |-> w.steps[i].step]
WorkflowOrder == << "cleaning", "analysis", "visualization" >>

\* C17: OrchestratorAgent.execute never raises and returns a result with
\* 'status' and 'steps'; the status is 'completed' or 'failed', never
\* 'in_progress'; the steps recorded are a prefix of cleaning, analysis,
\* visualization, the cleaning step being 'skipped' exactly when skip_cleaning
\* was passed; 'completed' comes with success = true and only with all three
\* steps recorded; 'failed' carries the error and success = false.
C17_WorkflowResult ==
    /\ ~escaped
    /\ pc = "returned" =>
          /\ {"status", "steps"} \subseteq workflow_results.keys
          /\ workflow_results.status \in {"completed", "failed"}
          /\ Len(workflow_results.steps) <= 3
          /\ StepNames(workflow_results)
                 = SubSeq(WorkflowOrder, 1, Len(workflow_results.steps))
          /\ Len(workflow_results.steps) > 0 =>
                 (workflow_results.steps[1].status = "skipped" <=> skip_cleaning)
          /\ workflow_results.status = "completed" =>
                 /\ Len(workflow_results.steps) = 3
                 /\ "success" \in workflow_results.keys /\ workflow_results.success
          /\ workflow_results.status = "failed" =>
                 /\ {"error", "success"} \subseteq workflow_results.keys
                 /\ workflow_results.error # ""
                 /\ ~workflow_results.success

\* The analysis agent raises after a skipped cleaning step: one step, 'failed'.
C17_Witness ==
    /\ pc = "returned"
    /\ skip_cleaning
    /\ agents.analysis = "raises"
    /\ workflow_results.status = "failed"
    /\ Len(workflow_results.steps) = 1


\* Running the code handed to exec (the sanitized code, or the substitute code
\* when the sanitizer gave None) completes without error and leaves fig unset.
RunsWithoutFig(c, d) ==
    /\ c # None
    /\ \A strict \in BOOLEAN :
          run_code(to_run(sanitize_code(c, d), d), d, strict) = "None"

\* C18: if running the code completes without error but leaves 'fig' unset,
\* execute_visualization_code returns the generic fallback scatter chart over
\* the first two columns and not the error placeholder, for every dataframe
\* with at least one column.
C18_UnsetFigGivesFallbackChart ==
    pc = "done" /\ Len(df) > 0 /\ RunsWithoutFig(code, df)
    => fig = chart("fallback") /\ fig # error_fig


\* The request text holds one of the keywords listed for the chart type.
HasKeywordOf(chart_type, p) ==
    \E n \in 1..Len(chart_keywords) :
        /\ chart_keywords[n].chart_type = chart_type
        /\ AnyIn(chart_keywords[n].keywords, lower(p))

\* C19: heatmap is checked before scatter: a request that holds a heatmap
\* keyword ('heatmap', 'correlation', 'heat map') and also a scatter keyword,
\* and no kpi keyword, is classified heatmap and never scatter.
C19_HeatmapBeforeScatter ==
    /\ pc = "parsed"
    /\ HasKeywordOf("heatmap", prompt)
    /\ HasKeywordOf("scatter", prompt)
    /\ ~HasKeywordOf("kpi", prompt)
    => parsed.chart_type = "heatmap"

\* C20: the color condition of the parsed request is non-empty exactly when
\* the threshold pattern matches the request text; it then carries the
\* operator (lt for below / less than / <, gt otherwise), the threshold and a
\* color (the word after 'color', 'red' when the text names none); 'color
\* <word>' without a threshold gives no condition, so that whoever reads a
\* non-empty condition finds an operator and a threshold in it.
C20_ConditionIffThreshold ==
    pc = "parsed" =>
        LET condition == parsed.color_condition
            threshold_match == threshold_search(lower(prompt))
        IN  /\ condition.keys # {} <=> threshold_match # None
            /\ condition.keys # {} =>
                  /\ {"operator", "value"} \subseteq condition.keys
                  /\ condition.operator \in {"lt", "gt"}
                  /\ condition.value = threshold_match.group2


\* The code is a KPI card: the guarded mean of the metric column and an
\* indicator whose number has the given color.
IsKpiCode(toks, metric_col, color) ==
    /\ Len(toks) > 0
    /\ toks[1] = Tok("guarded", "", metric_col, metric_col)
    /\ \E i \in 1..Len(toks) : toks[i] = Go("Indicator")
    /\ \E i \in 1..Len(toks) : toks[i] = Tok("kpi_number", "", color, <<>>)

\* The color the claim describes: the condition's color ('red' when it names
\* none) when the mean is on the stated side of the threshold, else green.
KpiColor(mean, condition) ==
    IF /\ "operator" \in condition.keys
       /\ \/ condition.operator = "lt" /\ RatLess(mean, condition.value)
          \/ condition.operator = "gt" /\ RatLess(condition.value, mean)
    THEN (IF "color" \in condition.keys THEN condition.color ELSE red)
    ELSE green

\* C21: for a kpi request the synthesizer uses the first candidate column, or
\* the fixed default metric name when there is none, and picks the display
\* color by comparing the column's mean with the color condition; KPI code is
\* produced for every request, also for one without candidate on a dataframe
\* that lacks the default metric.
C21_KpiCodeForEveryRequest ==
    pc = "synthesized" /\ parsed.chart_type = "kpi" /\ Len(df) > 0 =>
        LET metric_col == IF Len(parsed.columns) > 0 THEN parsed.columns[1]
                          ELSE Response
            mean == IF InColumns(metric_col, df) THEN column(metric_col, df).mean
                    ELSE [n |-> 0, d |-> 1]
        IN  IsKpiCode(code.toks, metric_col, KpiColor(mean, parsed.color_condition))


\* The code is a bar chart of the series grouped by x_col, with the
\* aggregation and then the sort applied to y_col per group.
IsBarCode(toks, x_col, y_col, aggregation, sorting) ==
    /\ Len(toks) > 0
    /\ toks[1] = Tok(IF sorting = "descending" THEN "grouped_desc"
                     ELSE IF sorting = "ascending" THEN "grouped_asc"
                     ELSE "grouped", aggregation, x_col, y_col)
    /\ \E i \in 1..Len(toks) : toks[i] = Tok("px_of", "bar", <<"grouped_data">>, <<>>)
    /\ \E i \in 1..Len(toks) : toks[i] = Arg("x", x_col)
    /\ \E i \in 1..Len(toks) : toks[i] = Arg("y", y_col)

\* C22 as stated: for a bar request with two candidate columns or more the
\* first two are (x, y); with fewer the first categorical and the first
\* numeric column of the dataframe are; the detected aggregation and then the
\* detected sort are applied to the grouped series.
C22_BarColumns ==
    pc = "synthesized" /\ parsed.chart_type = "bar" /\ Len(df) > 0 =>
        IF Len(parsed.columns) >= 2
        THEN IsBarCode(code.toks, parsed.columns[1], parsed.columns[2],
                       parsed.aggregation, parsed.sorting)
        ELSE /\ Len(cat_cols(df)) > 0 /\ Len(num_cols(df)) > 0
             /\ IsBarCode(code.toks, cat_cols(df)[1], num_cols(df)[1],
                          parsed.aggregation, parsed.sorting)

\* C22, amended: with fewer than two candidates the first categorical and the
\* first numeric column are used when the dataframe has both, and otherwise
\* its first two columns (its only column twice when it has one).
C22_BarColumnsOrFirstTwo ==
    pc = "synthesized" /\ parsed.chart_type = "bar" /\ Len(df) > 0 =>
        IF Len(parsed.columns) >= 2
        THEN IsBarCode(code.toks, parsed.columns[1], parsed.columns[2],
                       parsed.aggregation, parsed.sorting)
        ELSE IF Len(cat_cols(df)) > 0 /\ Len(num_cols(df)) > 0
        THEN IsBarCode(code.toks, cat_cols(df)[1], num_cols(df)[1],
                       parsed.aggregation, parsed.sorting)
        ELSE IsBarCode(code.toks, columns(df)[1],
                       columns(df)[IF Len(df) > 1 THEN 2 ELSE 1],
                       parsed.aggregation, parsed.sorting)

\* A bar request that names no column, on a dataframe of two numeric columns:
\* the bars are grouped by the first column.
C22_Witness ==
    /\ pc = "synthesized"
    /\ prompt = P_bar
    /\ columns(df) = << Age, Income >>
    /\ IsBarCode(code.toks, Age, Income, "mean", "None")


\* C23: for a heatmap request the synthesizer keeps the candidates that are
\* present and numeric; when two or more survive it uses exactly those,
\* otherwise the first 4 numeric columns of the dataframe, and the first 4
\* columns of any kind only when the dataframe has no numeric column; no case
\* raises.
C23_HeatmapColumns ==
    pc = "synthesized" /\ parsed.chart_type = "heatmap" /\ Len(df) > 0 =>
        LET valid_cols == SelectSeq(parsed.columns,
                                    LAMBDA c : column(c, df).dtype = "number")
            expected == IF Len(valid_cols) >= 2 THEN valid_cols
                        ELSE IF Len(num_cols(df)) > 0 THEN first4(num_cols(df))
                        ELSE first4(columns(df))
        IN  /\ synthesize(parsed, df).raises = "None"
            /\ Len(code.toks) > 0
            /\ code.toks[1] = Tok("corr", "", expected, <<>>)


ChartKinds ==
    { chart_keywords[n].chart_type : n \in 1..Len(chart_keywords) }

\* C24: for every request text and every dataframe with at least one column,
\* a single column included, parsing and rule-based synthesis never raise:
\* the parsed request has a chart kind (bar when no keyword is found) and an
\* aggregation (mean by default), and create_visualization_from_prompt
\* returns a non-empty code string that assigns fig, with the chart kind
\* detected, the built-in fallback code standing in when a branch fails.
C24_SynthesisNeverFails ==
    /\ pc \in {"parsed", "synthesized"} /\ Len(df) > 0 =>
          /\ parsed.chart_type \in ChartKinds
          /\ parsed.aggregation \in {"mean", "sum", "count", "median"}
          /\ (\A kind \in ChartKinds : ~HasKeywordOf(kind, prompt))
                => parsed.chart_type = "bar"
    /\ pc = "synthesized" /\ Len(df) > 0 =>
          /\ code # None
          /\ Len(code.toks) > 0
          /\ HasTok(code.toks, "fig_assign")
          /\ create_visualization_from_prompt(prompt, df).chart_type = parsed.chart_type
          /\ synthesize(parsed, df).raises # "None" => code = fallback_code

\* A scatter request on a single-column dataframe: the branch fails on the
\* second column and the fallback code is returned.
C24_Witness ==
    /\ pc = "synthesized"
    /\ Len(df) = 1
    /\ parsed.chart_type = "scatter"
    /\ synthesize(parsed, df).raises = "IndexError"
    /\ code = fallback_code


\* C25: no generate, validate or execute call changes the dataframe: its
\* columns and their values are after every step what they were before it.
C25_DataframeReadOnly == [][df' = df]_vars


\* The constructs C26 lists: marker given as a brace literal, a quoted column
\* name given directly as x, go.Layout(...).
Denylisted(toks) ==
    \/ HasTok(toks, "marker_brace")
    \/ \E i \in 1..Len(toks) : toks[i].k = "arg" /\ toks[i].a = "x"
    \/ \E i \in 1..Len(toks) : toks[i].k = "go" /\ toks[i].a = "Layout"

\* C26: the validator never accepts code that fails to parse or that holds a
\* denylisted construct: when the code extracted from the LLM response does
\* not parse, or holds a brace-literal marker, a quoted column name given as
\* x, or go.Layout(...), validation fails, and what generate returns is the
\* rule-based code, not the LLM code.
C26_ValidatorRejects ==
    /\ Returned
    /\ \E n \in 1..Len(steps) : steps[n] = "validate"
    => LET c == extract_code_from_response(response)
       IN  ~Compiles(c.toks) \/ Denylisted(c.toks) =>
              /\ ~validate_code_syntax(c).returns
              /\ method = "rule-based"
              /\ code # c


\* Code in the form the LLM prompt asks for: fig assigned from one
\* plotly-express call on df whose arguments are quoted column names.
IsPxForm(toks) ==
    /\ Len(toks) >= 4
    /\ toks[1].k = "fig_assign" /\ toks[2].k = "px"
    /\ toks[Len(toks)].k = "close"
    /\ \A i \in 3..(Len(toks) - 1) : toks[i].k = "arg"

\* C27: with the LLM enabled, available and answering with code of the form
\* fig = px.bar(df, x='Age', y='Income'), the code passes the coordinator's
\* validation and generate returns it with the method 'ollama'.
C27_PromptedFormIsReturned ==
    /\ Returned /\ use_ollama /\ ollama_available
    /\ llm.kind = "returns" /\ Truthy(llm.text)
    /\ Truthy(extract_code_from_response(llm.text))
    /\ IsPxForm(extract_code_from_response(llm.text).toks)
    => /\ validate_code_syntax(extract_code_from_response(llm.text)).returns
       /\ method = "ollama"
       /\ code = extract_code_from_response(llm.text)


\* Line 166: the value generate_kpi_code compares with the threshold.
kpi_compared(metric_col, d) ==
    IF InColumns(metric_col, d) THEN column(metric_col, d).mean
    ELSE [n |-> 0, d |-> 1]

\* Line 180, when the generated code runs: the value the indicator shows.
\* t is the code's first statement,
\*   value = df['<col>'].mean() * 100 if '<col2>' in df.columns else 0
kpi_displayed(t, d) ==
    IF InColumns(t.col2, d)
    THEN [n |-> column(t.col, d).mean.n * 100, d |-> column(t.col, d).mean.d]
    ELSE [n |-> 0, d |-> 1]

RatEq(x, y) == x.n * y.d = y.n * x.d

\* C28: in the KPI path the value compared with the threshold of the color
\* condition is the value the generated indicator displays: the mean taken at
\* synthesis time equals the number the code computes when it runs.
C28_KpiComparesWhatItShows ==
    /\ pc = "synthesized" /\ parsed.chart_type = "kpi"
    /\ Len(code.toks) > 0 /\ code.toks[1].k = "guarded"
    => RatEq(kpi_compared(code.toks[1].col, df), kpi_displayed(code.toks[1], df))


\* C29: a save_dataset call that fails leaves the store unchanged: after any
\* sequence of saves and deletes every metadata row describes the data in its
\* table, with the columns and the row count the dataset had when it was
\* saved; no failed save has replaced stored data.
C29_FailedSaveLeavesStore ==
    \A r \in datasets : \A t \in tables :
        t.table_name = r.table_name =>
            /\ Len(t.data.columns) = r.column_count
            /\ t.data.row_count = r.row_count
            /\ \A s \in saved : s.id = r.id => t.data = s.data


\* C30: whenever _sanitize_code returns code, every df['<name>'] subscript
\* and every groupby('<name>') argument of the returned code names a column
\* of the dataframe, the references made by the go.* rewriting and the names
\* put in by the fuzzy repair included.
C30_ReturnedReferencesAreColumns ==
    pc = "sanitized" /\ sanitized # None =>
        \A i \in 1..Len(sanitized.toks) :
            HasDfSubscript(sanitized.toks[i]) \/ HasGroupby(sanitized.toks[i]) =>
                InColumns(sanitized.toks[i].col, df)

\* go.Scatter(y=df['Incme'], x='Age'  comes back with both references naming
\* columns: one repaired, one made by the rewriting.
C30_Witness ==
    /\ pc = "sanitized"
    /\ code = Code(<< Go("Scatter"), ArgDf("y", Incme), Arg("x", Age) >>)
    /\ sanitized = Code(<< Go("Scatter"), ArgDf("y", Income), ArgDf("x", Age) >>)

=============================================================================
